---- MODULE Spec2Model ----
(***************************************************************************)
(* The PDF export pipeline of the research-report repository:              *)
(* PDFConverter.convertAll / convertSingle / convertFile / copyToSource    *)
(* (src/unnamed/part_002, lines 661-1054).                                 *)
(*                                                                         *)
(* Every `await` of the JavaScript is a suspension point.  A conversion    *)
(* call convertFile(f) sits at cpc[f] = the call it is awaiting; one       *)
(* action resolves or rejects that await and runs the synchronous code     *)
(* that follows it up to the next await (run-to-completion).               *)
(***************************************************************************)
EXTENDS Integers, Sequences, FiniteSets, TLC

VARIABLES
    mode,        \* "all" (convertAll) or "single" (convertSingle), chosen by the CLI
    parallel,    \* options.parallel
    config,      \* this.config, as far as convertFile reads it
    bpc,         \* where convertAll / convertSingle is suspended
    browser,     \* this.browser: "none", "open", "closed"
    htmlFiles,   \* number of files returned by findHTMLFiles (files are 1..htmlFiles)
    started,     \* number of files for which convertFile has been called
    stats,       \* this.stats: [total, successful, failed]
    reported,    \* the "Conversion complete" report has been logged
    published,   \* copyToSource has been called
    openPages,   \* pages of the browser that are open
    cpc,         \* per file: the await convertFile(f) is suspended at
    hasPage,     \* per file: local variable `page` of the running call is set
    trace,       \* per file: what the running call has done to its page, in order
    failedAt,    \* per file: the await whose rejection the running call caught
    result,      \* per file: the counter convertFile(f) incremented
    warned,      \* the "No HTML files found" warning has been logged
    plan,        \* per file: the await of convertFile(f) that rejects ("any": not fixed)
    ppc,         \* the page of one conversion: the step convertFile has reached with it
    pconfig,     \* this.config, as far as getPageConfig and the QR block read it
    documentType,\* getDocumentType(filePath)
    pageConfig,  \* const pageConfig = this.getPageConfig(filePath)
    tables,      \* the page's DOM: its table elements
    pending,     \* the tables the page's scripts have still to render
    qr,          \* the QR block: the resolved qrConfig, what was generated and injected
    content,     \* the page's DOM: what the readiness predicate looks at
    wait,        \* how the primary readiness wait ended: "none", "ready", "timeout"
    pdfOptions,  \* the options object passed to page.pdf
    copc,        \* where copyToSource is suspended
    outputDir,   \* the entries of this.outputDir
    srcDir,      \* the src directory: whether it exists, the files copied into it
    pdfFiles,    \* copyToSource: the files of its list it has still to copy
    copyLog,     \* copyToSource: what it logged, in order
    tree,        \* the files under this.distDir
    excludeFiles,\* this.config.excludeFiles
    found,       \* what each call of findHTMLFiles returned, in order
    argv,        \* the command line: the argument of -p, whether -f is given
    options,     \* program.opts(), as far as the CLI hands it to the converter
    doc,         \* HTMLPreprocessor: the src and href attributes of the document
    applied      \* HTMLPreprocessor: how many times fixAssetPaths has run on it

\* One conversion seen from its page (specification SpecPage).
pageVars == <<ppc, pconfig, documentType, pageConfig, tables, pending, qr,
              content, wait, pdfOptions>>

\* copyToSource seen from the two directories (specification SpecCopy).
copyVars == <<copc, outputDir, srcDir, pdfFiles, copyLog>>

\* findHTMLFiles seen from the input tree (specification SpecDiscovery).
discVars == <<tree, excludeFiles, found>>

\* The command line and its parse (specification SpecCLI).
cliVars == <<argv, options>>

\* HTMLPreprocessor.fixAssetPaths seen from the document (specification SpecAssets).
prepVars == <<doc, applied>>

\* What the batch (specifications Spec and SpecDet) never changes once it runs.
fixedVars == <<pageVars, plan, copyVars, discVars, cliVars, prepVars>>

vars == <<mode, parallel, config, bpc, browser, htmlFiles, started, stats,
          reported, published, openPages, cpc, hasPage, trace, failedAt, result,
          warned, plan, pageVars, copyVars, discVars, cliVars, prepVars>>

batchVars == <<fixedVars, warned, mode, parallel, config, bpc, browser, htmlFiles,
               started, reported, published>>

\* ---------------------------------------------------------------- bounds
MaxFiles == 5           \* files discovered by a sequential batch
MaxParallel == 2        \* options.parallel
MaxParallelFiles == 3   \* files discovered by a parallel batch

Files == 1..(IF MaxFiles > MaxParallelFiles THEN MaxFiles ELSE MaxParallelFiles)

\* ---------------------------------------------------------------- config
\* config.waitConditions: absent, or an object with three flags.
WaitConditions ==
    { [present |-> FALSE, waitForSVGs |-> FALSE, waitForImages |-> FALSE,
       additionalWaitTime |-> FALSE] }
    \cup
    [present : {TRUE}, waitForSVGs : BOOLEAN, waitForImages : BOOLEAN,
     additionalWaitTime : BOOLEAN]

\* config.qrCode && config.qrCode.enabled, and config.waitConditions.
Configs == [qrEnabled : BOOLEAN, waitConditions : WaitConditions]

\* The configurations batches are explored with (single-file runs take every
\* configuration): nothing optional, or every optional step.
BatchConfigs ==
    {c \in Configs :
        LET wc == c.waitConditions IN
        /\ wc.present = c.qrEnabled
        /\ wc.waitForSVGs = wc.present
        /\ wc.waitForImages = wc.present
        /\ wc.additionalWaitTime = wc.present}

\* The configurations parallel batches are explored with.
ParallelConfigs == {c \in Configs : ~c.qrEnabled /\ ~c.waitConditions.present}

\* The runs explored: what the CLI hands to the converter.
Inputs ==
    [mode : {"single"}, parallel : {1}, config : Configs]
    \cup [mode : {"all"}, parallel : {1}, config : BatchConfigs]
    \cup [mode : {"all"}, parallel : 2..MaxParallel, config : ParallelConfigs]

\* Program constants: the deadlines convertFile passes to waitForFunction.
RenderTimeout == 30000
SVGTimeout == 10000
ImageTimeout == 10000


\* ---------------------------------------------------------------- trace
\* One entry per thing the running call did: the operation and, for a wait,
\* the deadline passed to it (0 otherwise).
Ev(op, t) == [op |-> op, t |-> t]

Did(f, op) == \E i \in DOMAIN trace[f] : trace[f][i].op = op

Count(f, op) == Cardinality({i \in DOMAIN trace[f] : trace[f][i].op = op})

\* Position of the first `op` in the trace of f (0 when absent).
Pos(f, op) ==
    IF Did(f, op)
    THEN CHOOSE i \in DOMAIN trace[f] :
            /\ trace[f][i].op = op
            /\ \A j \in 1..(i - 1) : trace[f][j].op # op
    ELSE 0

NoResult == [successful |-> 0, failed |-> 0]

\* ---------------------------------------------------------------- page data
\* A JavaScript object with no own property.
NoObject == [k \in {} |-> k]

\* Objects are functions from their own property names to values.
\* `{...a, ...b}`: the properties of a, then those of b over them.
Spread(a, b) ==
    [k \in DOMAIN a \cup DOMAIN b |-> IF k \in DOMAIN b THEN b[k] ELSE a[k]]

\* `o.k` used as a condition: the property exists and is true (the values
\* of the JSON configuration are written as strings).
Truthy(o, k) == k \in DOMAIN o /\ o[k] = "true"

\* `map[key] || {}`
EntryOrEmpty(map, key) == IF key \in DOMAIN map THEN map[key] ELSE NoObject

\* this.config.qrCode: its own fields (`top`) and its `documents` map.
NoQRCode == [top |-> NoObject, documents |-> NoObject]

\* The sections of the configuration file getPageConfig reads.  `sections`
\* are those the parsed JSON has; a missing one is undefined (kept here as
\* an object with no property).
AllSections == {"defaults", "documents"}

NoPageInput ==
    [sections |-> AllSections, defaults |-> NoObject, documents |-> NoObject,
     qrCode |-> NoQRCode]

NoQR == [config |-> NoObject, generated |-> FALSE, injected |-> FALSE, warned |-> FALSE]

\* A page with nothing the readiness predicate looks at.
NoContent == [loading |-> FALSE, svgs |-> {}, cells |-> {}, images |-> {}]

\* Mutant: the spread written the other way round, the defaults win.
getPageConfigDefaultsWin(cfg, type) ==
    Spread(EntryOrEmpty(cfg.documents, type), cfg.defaults)

\* `this.config.documents[documentType]` with this.config.documents undefined
\* is a TypeError; `...this.config.defaults` with defaults undefined spreads nothing.
getPageConfigThrows(cfg) == "documents" \notin cfg.sections

\* getPageConfig(filePath), documentType being getDocumentType(filePath):
\* specificConfig = this.config.documents[documentType] || {};
\* return {...this.config.defaults, ...specificConfig}
getPageConfig(cfg, type) ==
    Spread(cfg.defaults, EntryOrEmpty(cfg.documents, type))

\* Mutant: the spread written the other way round, the top-level fields win.
ResolveQRConfigTopWins(qrCode, type) ==
    Spread(EntryOrEmpty(qrCode.documents, type), qrCode.top)

\* const qrConfig = {...this.config.qrCode,
\*     ...(this.config.qrCode.documents && this.config.qrCode.documents[documentType] || {})}
ResolveQRConfig(qrCode, type) ==
    Spread(qrCode.top, EntryOrEmpty(qrCode.documents, type))

\* QRGenerator.generateForFile(filePath, qrConfig): with enabled = false the
\* annotation is a no-op (nothing is generated, a falsy value comes back);
\* otherwise a data URL comes back, or the generation throws.
generateForFile(qrConfig) ==
    IF Truthy(qrConfig, "enabled") THEN {"dataUrl", "throws"} ELSE {"null"}

\* The predicate, were the cell containers looked at on every page.
RenderReadyCellsAlways(c) ==
    /\ ~c.loading
    /\ "empty" \notin c.svgs
    /\ "empty" \notin c.cells

\* The predicate of the primary readiness wait: no observablehq-loading
\* element; with svg elements, each has a child; without any, each
\* [id^="cell-"] element has a child (none: true).
RenderReady(c) ==
    /\ ~c.loading
    /\ IF c.svgs = {} THEN "empty" \notin c.cells ELSE "empty" \notin c.svgs

\* The properties of pageConfig that page.pdf is given (an undefined one is
\* no option).
PdfKeys ==
    {"format", "landscape", "margin", "printBackground", "preferCSSPageSize",
     "displayHeaderFooter"}

PdfOptions(rules) == [k \in PdfKeys \cap DOMAIN rules |-> rules[k]]

\* The table scan: `rowCount <= 6`
SmallTableRows == 6

\* Mutant: the comparison written `<`.
IsSmallBelow(rowCount) == rowCount < SmallTableRows

IsSmall(rowCount) == rowCount <= SmallTableRows

\* A table element: its header rows, its own body rows, the rows of the
\* tables nested in its cells, its class list, and whether the scan saw it.
\* table.querySelectorAll('tr').length: every tr below the table.
TrCount(t) == t.head + t.body + t.nested

\* table.classList.add('small-table') when rowCount <= 6; the table is listed
\* in tableInfo either way.
ScanTable(t) ==
    [t EXCEPT !.classes = IF IsSmall(TrCount(t)) THEN @ \cup {"small-table"} ELSE @,
              !.scanned = TRUE]

\* ---------------------------------------------------------------- convertFile
\* The rejection of call f reaches the catch of convertAll / convertSingle:
\* logger.error("Fatal error"); process.exit(1).  The process ends there: the
\* finally block does not run and the calls still pending die with it.
ProcessExit(f) ==
    /\ bpc' = "exited"
    /\ cpc' = [g \in Files |->
                 IF g = f THEN "threw"
                 ELSE IF cpc[g] \in {"idle", "finished"} THEN cpc[g]
                 ELSE IF cpc[g] = "done" THEN "finished"
                 ELSE "killed"]
    /\ hasPage' = [g \in Files |-> g = f /\ hasPage[g]]
    /\ trace' = [g \in Files |-> IF g = f THEN trace[g] ELSE <<>>]
    /\ failedAt' = [g \in Files |-> IF g = f THEN failedAt[g] ELSE "none"]

\* Mutant: the QR block is entered whatever config.qrCode.enabled says.
AfterTableScanAlways(cfg) == "qrGenerate"

\* Mutant: the readiness wait is issued only at the end of the QR block.
AfterTableScanNoWait(cfg) == IF cfg.qrEnabled THEN "qrGenerate" ELSE "svgCount"

\* Where convertFile goes after `await page.evaluate(tableInfo)`:
\* `if (this.config.qrCode && this.config.qrCode.enabled)`.
AfterTableScan(cfg) == IF cfg.qrEnabled THEN "qrGenerate" ELSE "readiness"

\* Mutant: the capture does not wait for additionalWaitTime.
NextWaitNoDelay(cfg, from) ==
    LET wc == cfg.waitConditions IN
    IF ~wc.present THEN "ensureDir"
    ELSE IF from <= 1 /\ wc.waitForSVGs THEN "waitSVGs"
    ELSE IF from <= 2 /\ wc.waitForImages THEN "waitImages"
    ELSE "ensureDir"

\* Mutant: the waits are issued without looking at config.waitConditions.
NextWaitAlways(cfg, from) ==
    IF from <= 1 THEN "waitSVGs"
    ELSE IF from <= 2 THEN "waitImages"
    ELSE IF from <= 3 THEN "delay"
    ELSE "ensureDir"

\* The first wait of the `if (this.config.waitConditions)` block at or after `from`.
NextWait(cfg, from) ==
    LET wc == cfg.waitConditions IN
    IF ~wc.present THEN "ensureDir"
    ELSE IF from <= 1 /\ wc.waitForSVGs THEN "waitSVGs"
    ELSE IF from <= 2 /\ wc.waitForImages THEN "waitImages"
    ELSE IF from <= 3 /\ wc.additionalWaitTime THEN "delay"
    ELSE "ensureDir"

\* Mutant: no finally block, the page is never closed.
FinallyNoClose(pageSet) == "done"

\* `finally { if (page) await page.close(); }`
FinallyPc(pageSet) == IF pageSet THEN "close" ELSE "done"

\* Mutant: the counter is stepped by two.
IncrementTwice(s, counter) == [s EXCEPT ![counter] = @ + 2]

\* Mutant: the counter is written back from a value read before another
\* conversion incremented it (the second update of a counter is lost).
IncrementLost(s, counter) == [s EXCEPT ![counter] = IF @ >= 1 THEN @ ELSE @ + 1]

\* `this.stats.successful++` / `this.stats.failed++`
Increment(s, counter) == [s EXCEPT ![counter] = @ + 1]

\* The outcome of the await convertFile(f) is suspended at: free, or fixed by
\* the plan of the document (it rejects at plan[f] and resolves elsewhere).
Rejects(f) == plan[f] \in {"any", cpc[f]}

\* Mutant: the awaits of a call resolve only once the calls started before it
\* have returned (the conversions of a chunk run one after the other).
ResolvesInTurn(f) ==
    /\ plan[f] # cpc[f]
    /\ \A g \in 1..(f - 1) : cpc[g] \in {"idle", "done", "finished"}

Resolves(f) == plan[f] # cpc[f]

\* The await at cpc[f] resolved: run on to the next await.
Resume(f, events, next) ==
    /\ Resolves(f)
    /\ cpc' = [cpc EXCEPT ![f] = next]
    /\ trace' = [trace EXCEPT ![f] = @ \o events]
    /\ UNCHANGED <<batchVars, stats, openPages, hasPage, failedAt, result>>

\* Mutant: the catch block logs the error and forgets this.stats.failed++.
CatchUncounted(f) ==
    /\ Rejects(f)
    /\ failedAt' = [failedAt EXCEPT ![f] = cpc[f]]
    /\ trace' = [trace EXCEPT ![f] = Append(@, Ev("recordFailed", 0))]
    /\ cpc' = [cpc EXCEPT ![f] = FinallyPc(hasPage[f])]
    /\ UNCHANGED <<batchVars, stats, result, openPages, hasPage>>

\* The await at cpc[f] rejected inside the try block: the catch block
\* (logger.error; this.stats.failed++) and the start of the finally block.
Catch(f) ==
    /\ Rejects(f)
    /\ failedAt' = [failedAt EXCEPT ![f] = cpc[f]]
    /\ stats' = Increment(stats, "failed")
    /\ result' = [result EXCEPT ![f] = Increment(@, "failed")]
    /\ trace' = [trace EXCEPT ![f] = Append(@, Ev("recordFailed", 0))]
    /\ cpc' = [cpc EXCEPT ![f] = FinallyPc(hasPage[f])]
    /\ UNCHANGED <<batchVars, openPages, hasPage>>

\* page = await this.browser.newPage();  then  await page.setViewport(...)
NewPage(f) ==
    /\ bpc = "convert" /\ cpc[f] = "newPage"
    /\ \/ /\ Resolves(f)
          /\ hasPage' = [hasPage EXCEPT ![f] = TRUE]
          /\ openPages' = openPages \cup {f}
          /\ cpc' = [cpc EXCEPT ![f] = "setViewport"]
          /\ trace' = [trace EXCEPT ![f] = Append(@, Ev("open", 0))]
          /\ UNCHANGED <<batchVars, stats, failedAt, result>>
       \/ Catch(f)

\* await page.setViewport(...); getDocumentType; getPageConfig; await page.goto(...)
SetViewport(f) ==
    /\ bpc = "convert" /\ cpc[f] = "setViewport"
    /\ \/ Resume(f, <<Ev("config", 0)>>, "goto")
       \/ Catch(f)

\* Mutant: page.goto is awaited outside the try block, its rejection leaves
\* convertFile and reaches the caller's catch.
GotoUncaught(f) ==
    /\ bpc = "convert" /\ cpc[f] = "goto"
    /\ \/ Resume(f, <<Ev("navigate", 0)>>, "evalLang")
       \/ /\ Rejects(f)
          /\ ProcessExit(f)
          /\ UNCHANGED <<fixedVars, warned, mode, parallel, config, browser, htmlFiles, started,
                         reported, published, stats, openPages, result>>

\* await page.goto(fileUrl, ...); then await page.evaluate(set lang)
Goto(f) ==
    /\ bpc = "convert" /\ cpc[f] = "goto"
    /\ \/ Resume(f, <<Ev("navigate", 0)>>, "evalLang")
       \/ Catch(f)

\* await page.evaluate(lang); then await this.styleManager.loadStyles()
EvalLang(f) ==
    /\ bpc = "convert" /\ cpc[f] = "evalLang"
    /\ \/ Resume(f, <<>>, "loadStyles")
       \/ Catch(f)

\* await loadStyles(); then await page.addStyleTag({content: styles})
LoadStyles(f) ==
    /\ bpc = "convert" /\ cpc[f] = "loadStyles"
    /\ \/ Resume(f, <<>>, "addStyles")
       \/ Catch(f)

\* await page.addStyleTag(styles); then await page.addStyleTag(render date)
AddStyles(f) ==
    /\ bpc = "convert" /\ cpc[f] = "addStyles"
    /\ \/ Resume(f, <<Ev("styles", 0)>>, "addDate")
       \/ Catch(f)

\* await page.addStyleTag(date); generatePageStyles(pageConfig) is empty or
\* not: await page.addStyleTag(pageStyles) or go on to the table scan.
AddDate(f) ==
    /\ bpc = "convert" /\ cpc[f] = "addDate"
    /\ \/ \E next \in {"addPageStyles", "tableScan"} : Resume(f, <<>>, next)
       \/ Catch(f)

AddPageStyles(f) ==
    /\ bpc = "convert" /\ cpc[f] = "addPageStyles"
    /\ \/ Resume(f, <<>>, "tableScan")
       \/ Catch(f)

\* await page.evaluate(table scan); log; then the QR block or the readiness wait
TableScan(f) ==
    /\ bpc = "convert" /\ cpc[f] = "tableScan"
    /\ \/ Resume(f, <<Ev("tables", 0)>>, AfterTableScan(config))
       \/ Catch(f)

\* await this.qrGenerator.generateForFile(...) inside the inner try:
\* a data URL (then generateURL, generateInjectionScript, await page.evaluate),
\* a falsy value (nothing injected), or a throw caught by the inner catch
\* (logger.warn); generateURL / generateInjectionScript throwing is caught alike.
QRGenerate(f) ==
    /\ bpc = "convert" /\ cpc[f] = "qrGenerate"
    /\ \/ Resume(f, <<>>, "qrInject")
       \/ Resume(f, <<>>, "readiness")
       \/ Resume(f, <<Ev("qrWarn", 0)>>, "readiness")

\* Mutant: no inner try/catch, a failing injection is thrown into the try block.
QRInjectThrows(f) ==
    /\ bpc = "convert" /\ cpc[f] = "qrInject"
    /\ \/ Resume(f, <<Ev("qr", 0)>>, "readiness")
       \/ Catch(f)

\* await page.evaluate(injectionScript): injected, or the inner catch warns.
QRInject(f) ==
    /\ bpc = "convert" /\ cpc[f] = "qrInject"
    /\ \/ Resume(f, <<Ev("qr", 0)>>, "readiness")
       \/ Resume(f, <<Ev("qrWarn", 0)>>, "readiness")

\* await page.waitForFunction(..., {timeout: 30000}).catch(() => warn):
\* the predicate became true, or the wait rejected and the warning is logged.
\* Either way the call goes on to await page.evaluate(svg count).
ReadinessEvent(ok) ==
    IF ok THEN Ev("ready", RenderTimeout) ELSE Ev("renderTimeout", RenderTimeout)

\* Mutant: no .catch() on the wait, its timeout is thrown into the try block.
ReadinessThrows(f) ==
    /\ bpc = "convert" /\ cpc[f] = "readiness"
    /\ \/ Resume(f, <<ReadinessEvent(TRUE)>>, "svgCount")
       \/ Catch(f)

Readiness(f) ==
    /\ bpc = "convert" /\ cpc[f] = "readiness"
    /\ \E ok \in BOOLEAN : Resume(f, <<ReadinessEvent(ok)>>, "svgCount")

\* await page.evaluate(svg count); then the waitConditions block
SvgCount(f) ==
    /\ bpc = "convert" /\ cpc[f] = "svgCount"
    /\ \/ Resume(f, <<>>, NextWait(config, 1))
       \/ Catch(f)

\* await page.waitForFunction(svgs, {timeout: 10000}).catch(() => warn)
WaitSVGs(f) ==
    /\ bpc = "convert" /\ cpc[f] = "waitSVGs"
    /\ \E op \in {"svgWait", "svgTimeout"} :
          Resume(f, <<Ev(op, SVGTimeout)>>, NextWait(config, 2))

\* await page.waitForFunction(images, {timeout: 10000}).catch(() => warn)
WaitImages(f) ==
    /\ bpc = "convert" /\ cpc[f] = "waitImages"
    /\ \E op \in {"imgWait", "imgTimeout"} :
          Resume(f, <<Ev(op, ImageTimeout)>>, NextWait(config, 3))

\* await delay(additionalWaitTime); generateOutputPath; await ensureDirectory
Delay(f) ==
    /\ bpc = "convert" /\ cpc[f] = "delay"
    /\ Resume(f, <<Ev("delay", 0)>>, "ensureDir")

\* await ensureDirectory(dirname(outputPath)); then await page.pdf(...)
EnsureDir(f) ==
    /\ bpc = "convert" /\ cpc[f] = "ensureDir"
    /\ \/ Resume(f, <<>>, "pdf")
       \/ Catch(f)

\* Mutant: this.stats.successful++ placed right after page.pdf, before stat.
PdfRecordsEarly(f) ==
    /\ bpc = "convert" /\ cpc[f] = "pdf"
    /\ \/ /\ Resolves(f)
          /\ stats' = Increment(stats, "successful")
          /\ result' = [result EXCEPT ![f] = Increment(@, "successful")]
          /\ trace' = [trace EXCEPT ![f] = @ \o <<Ev("capture", 0), Ev("recordSuccessful", 0)>>]
          /\ cpc' = [cpc EXCEPT ![f] = "stat"]
          /\ UNCHANGED <<batchVars, openPages, hasPage, failedAt>>
       \/ Catch(f)

\* await page.pdf(...); then await stat(outputPath)
Pdf(f) ==
    /\ bpc = "convert" /\ cpc[f] = "pdf"
    /\ \/ Resume(f, <<Ev("capture", 0)>>, "stat")
       \/ Catch(f)

\* await stat(outputPath); logger.success; this.stats.successful++; then the
\* finally block: await page.close()
Stat(f) ==
    /\ bpc = "convert" /\ cpc[f] = "stat"
    /\ \/ /\ Resolves(f)
          /\ stats' = Increment(stats, "successful")
          /\ result' = [result EXCEPT ![f] = Increment(@, "successful")]
          /\ trace' = [trace EXCEPT ![f] = Append(@, Ev("recordSuccessful", 0))]
          /\ cpc' = [cpc EXCEPT ![f] = FinallyPc(hasPage[f])]
          /\ UNCHANGED <<batchVars, openPages, hasPage, failedAt>>
       \/ Catch(f)

\* await page.close() in the finally block.  It resolves and convertFile
\* returns; or it rejects: the rejection is outside the try/catch, leaves
\* convertFile, rejects the await (or the Promise.all) in convertAll /
\* convertSingle, whose catch logs "Fatal error" and calls process.exit(1).
\* Whether the page is still open after a failed close is not determined.
ClosePage(f) ==
    /\ bpc = "convert" /\ cpc[f] = "close"
    /\ \/ /\ Resolves(f)
          /\ openPages' = openPages \ {f}
          /\ cpc' = [cpc EXCEPT ![f] = "done"]
          /\ trace' = [trace EXCEPT ![f] = Append(@, Ev("close", 0))]
          /\ UNCHANGED <<batchVars, stats, hasPage, failedAt, result>>
       \/ /\ Rejects(f)
          /\ openPages' \in {openPages, openPages \ {f}}
          /\ ProcessExit(f)
          /\ UNCHANGED <<fixedVars, warned, mode, parallel, config, browser, htmlFiles, started,
                         reported, published, stats, result>>

ConvertFile(f) ==
    \/ NewPage(f) \/ SetViewport(f) \/ Goto(f) \/ EvalLang(f) \/ LoadStyles(f)
    \/ AddStyles(f) \/ AddDate(f) \/ AddPageStyles(f) \/ TableScan(f)
    \/ QRGenerate(f) \/ QRInject(f) \/ Readiness(f) \/ SvgCount(f)
    \/ WaitSVGs(f) \/ WaitImages(f) \/ Delay(f)
    \/ EnsureDir(f) \/ Pdf(f) \/ Stat(f) \/ ClosePage(f)


\* ---------------------------------------------------------------- convertAll
Min(a, b) == IF a < b THEN a ELSE b

\* options.parallel && options.parallel > 1
ParallelMode == parallel > 1

\* Mutant: convertAll goes on as soon as the first call of the chunk returns.
AwaitedFirst ==
    {f \in Files : /\ cpc[f] \notin {"idle", "finished"}
                   /\ \A g \in 1..(f - 1) : cpc[g] \in {"idle", "finished"}}

\* The calls convertAll / convertSingle is awaiting.
Awaited == {f \in Files : cpc[f] \notin {"idle", "finished"}}

\* this.convertFile(f) for every f of fs: each call runs synchronously up to
\* its first await, browser.newPage().
Call(fs) ==
    /\ cpc' = [f \in Files |->
                 IF f \in fs THEN "newPage"
                 ELSE IF cpc[f] = "done" THEN "finished" ELSE cpc[f]]
    /\ hasPage' = [f \in Files |-> FALSE]
    /\ trace' = [f \in Files |-> <<>>]
    /\ failedAt' = [f \in Files |-> "none"]

\* The files convertAll starts next, given how many it has started:
\* the next chunk htmlFiles.slice(i, i + parallel), or htmlFiles[i].
NextFiles(from) ==
    IF ParallelMode THEN (from + 1)..Min(from + parallel, htmlFiles)
    ELSE {from + 1}

\* await this.init(): readFile + JSON.parse + ensureDirectory; then
\* puppeteer.launch.  A throw reaches convertAll's catch: process.exit(1).
InitConverter ==
    /\ bpc = "init"
    /\ bpc' \in {"launch", "exited"}
    /\ UNCHANGED <<fixedVars, warned, mode, parallel, config, browser, htmlFiles, started, stats,
                   reported, published, openPages, cpc, hasPage, trace, failedAt, result>>

\* this.browser = await puppeteer.launch(...).  convertAll goes on to
\* await this.findHTMLFiles(); convertSingle sets stats.total = 1 and calls
\* convertFile(filePath).
Launch ==
    /\ bpc = "launch"
    /\ \/ /\ browser' = "open"
          /\ IF mode = "single"
             THEN /\ stats' = [stats EXCEPT !.total = 1]
                  /\ started' = 1
                  /\ Call({1})
                  /\ bpc' = "convert"
             ELSE /\ bpc' = "discover"
                  /\ UNCHANGED <<stats, started, cpc, hasPage, trace, failedAt>>
          /\ UNCHANGED <<fixedVars, warned, mode, parallel, config, htmlFiles, reported, published,
                         openPages, result>>
       \/ /\ bpc' = "exited"
          /\ UNCHANGED <<fixedVars, warned, mode, parallel, config, browser, htmlFiles, started, stats,
                         reported, published, openPages, cpc, hasPage, trace,
                         failedAt, result>>

\* Mutant: the empty batch is not told apart, convertAll falls into its loops.
NoFilesNever(n) == FALSE

\* `if (htmlFiles.length === 0)`
NoFiles(n) == n = 0

\* const htmlFiles = await this.findHTMLFiles(); this.stats.total = length;
\* no file: warn and return (finally closes the browser); otherwise the first
\* chunk, or the first file, is started.
Discover ==
    /\ bpc = "discover"
    /\ \/ \E n \in 0..(IF ParallelMode THEN MaxParallelFiles ELSE MaxFiles) :
            /\ htmlFiles' = n
            /\ stats' = [stats EXCEPT !.total = n]
            /\ IF NoFiles(n)
               THEN /\ warned' = TRUE
                    /\ bpc' = "closeBrowser"
                    /\ UNCHANGED <<started, cpc, hasPage, trace, failedAt>>
               ELSE /\ bpc' = "convert"
                    /\ started' = Min(IF ParallelMode THEN parallel ELSE 1, n)
                    /\ Call(1..started')
                    /\ UNCHANGED warned
            /\ UNCHANGED <<fixedVars, mode, parallel, config, browser, reported, published,
                           openPages, result>>
       \/ /\ bpc' = "exited"
          /\ UNCHANGED <<fixedVars, warned, mode, parallel, config, browser, htmlFiles, started, stats,
                         reported, published, openPages, cpc, hasPage, trace,
                         failedAt, result>>

\* Every awaited convertFile has returned (the await, or the Promise.all of the
\* chunk, resolves) and files remain: the next file or the next chunk starts.
Continue ==
    /\ bpc = "convert" /\ mode = "all"
    /\ \A f \in Awaited : cpc[f] = "done"
    /\ started < htmlFiles
    /\ Call(NextFiles(started))
    /\ started' = Min(started + (IF ParallelMode THEN parallel ELSE 1), htmlFiles)
    /\ UNCHANGED <<fixedVars, warned, mode, parallel, config, bpc, browser, htmlFiles, stats,
                   reported, published, openPages, result>>

\* Mutant: copyToSource is called whenever the loops have ended.
ShouldPublishAlways(s) == TRUE

\* `this.stats.successful > 0` after the loops: copyToSource is called.
ShouldPublish(s) == s.successful > 0

\* The last awaited convertFile has returned: the report is logged and
\* copyToSource is awaited if any file succeeded; else the finally block runs.
Report ==
    /\ bpc = "convert" /\ mode = "all"
    /\ \A f \in Awaited : cpc[f] = "done"
    /\ started = htmlFiles
    /\ Call({})
    /\ reported' = TRUE
    /\ published' = ShouldPublish(stats)
    /\ bpc' = IF ShouldPublish(stats) THEN "copy" ELSE "closeBrowser"
    /\ UNCHANGED <<fixedVars, warned, mode, parallel, config, browser, htmlFiles, started, stats,
                   openPages, result>>

\* await this.copyToSource(): it catches its own errors and returns.
CopyToSource ==
    /\ bpc = "copy"
    /\ bpc' = "closeBrowser"
    /\ UNCHANGED <<fixedVars, warned, mode, parallel, config, browser, htmlFiles, started, stats,
                   reported, published, openPages, cpc, hasPage, trace, failedAt, result>>

\* Mutant: convertSingle publishes a success as convertAll does.
AfterSinglePublishes(s) == IF ShouldPublish(s) THEN "copy" ELSE "closeBrowser"

\* Where convertSingle goes when its convertFile has returned: to the finally
\* block, whatever the counters say.
AfterSingle(s) == "closeBrowser"

\* convertSingle: await this.convertFile(filePath) returned; the finally block runs.
SingleDone ==
    /\ bpc = "convert" /\ mode = "single"
    /\ \A f \in Awaited : cpc[f] = "done"
    /\ Call({})
    /\ bpc' = AfterSingle(stats)
    /\ UNCHANGED <<fixedVars, warned, mode, parallel, config, browser, htmlFiles, started, stats,
                   reported, published, openPages, result>>

\* finally { if (this.browser) await this.browser.close(); }
CloseBrowser ==
    /\ bpc = "closeBrowser"
    /\ browser' = "closed"
    /\ bpc' = "returned"
    /\ UNCHANGED <<fixedVars, warned, mode, parallel, config, htmlFiles, started, stats,
                   reported, published, openPages, cpc, hasPage, trace, failedAt, result>>

\* ---------------------------------------------------------------- specification
\* new PDFConverter(options); the CLI picks convertAll or convertSingle.
\* The page of SpecPage, before any conversion touches it.
PageIdle ==
    /\ ppc = "idle"
    /\ pconfig = NoPageInput
    /\ documentType = "none"
    /\ pageConfig = NoObject
    /\ tables = <<>>
    /\ pending = <<>>
    /\ qr = NoQR
    /\ content = NoContent
    /\ wait = "none"
    /\ pdfOptions = NoObject

\* copyToSource has not been called.
CopyIdle ==
    /\ copc = "idle"
    /\ outputDir = {}
    /\ srcDir = [exists |-> FALSE, files |-> {}]
    /\ pdfFiles = <<>>
    /\ copyLog = <<>>

\* findHTMLFiles has not been called.
DiscoveryIdle ==
    /\ tree = {}
    /\ excludeFiles = {}
    /\ found = <<>>

\* The converter was built by a caller other than the CLI.
NoArgv == [p |-> "", file |-> FALSE]

NoOptions == [parsed |-> FALSE, nan |-> FALSE, parallel |-> 0, file |-> FALSE]

CLIIdle == argv = NoArgv /\ options = NoOptions

\* No document is being preprocessed.
AssetsIdle == doc = <<>> /\ applied = 0

\* The variables of the other specifications, at rest.
RestIdle == PageIdle /\ CopyIdle /\ DiscoveryIdle /\ CLIIdle /\ AssetsIdle

\* The converter built from the CLI's input `in`; `pl` fixes the documents' outcomes.
Start(in, pl) ==
    /\ mode = in.mode
    /\ parallel = in.parallel
    /\ config = in.config
    /\ plan = pl
    /\ warned = FALSE
    /\ bpc = "init"
    /\ browser = "none"
    /\ htmlFiles = 0
    /\ started = 0
    /\ stats = [total |-> 0, successful |-> 0, failed |-> 0]
    /\ reported = FALSE
    /\ published = FALSE
    /\ openPages = {}
    /\ cpc = [f \in Files |-> "idle"]
    /\ hasPage = [f \in Files |-> FALSE]
    /\ trace = [f \in Files |-> <<>>]
    /\ failedAt = [f \in Files |-> "none"]
    /\ result = [f \in Files |-> NoResult]

Init ==
    /\ \E in \in Inputs : Start(in, [f \in Files |-> "any"])
    /\ RestIdle

Next ==
    \/ InitConverter
    \/ Launch
    \/ Discover
    \/ \E f \in Files : ConvertFile(f)
    \/ Continue
    \/ Report
    \/ CopyToSource
    \/ SingleDone
    \/ CloseBrowser

Spec == Init /\ [][Next]_vars

\* convertSingle alone, under every configuration.
InitSingle ==
    /\ \E in \in {i \in Inputs : i.mode = "single"} : Start(in, [f \in Files |-> "any"])
    /\ RestIdle

NextSingle ==
    \/ InitConverter
    \/ Launch
    \/ \E f \in Files : ConvertFile(f)
    \/ SingleDone
    \/ CloseBrowser

SpecSingle == InitSingle /\ [][NextSingle]_vars

\* ---------------------------------------------------------------- properties
Discovered == 1..htmlFiles

Recorded(f) == result[f].successful + result[f].failed

\* The running call of f has its frame (its trace is that of this call).
Live(f) == cpc[f] \notin {"idle", "finished", "killed"}

ReadinessResolved(f) == Did(f, "ready") \/ Did(f, "renderTimeout")

ReadinessPos(f) ==
    IF Did(f, "ready") THEN Pos(f, "ready") ELSE Pos(f, "renderTimeout")

\* Both happened, and every `b` after some `a`.
Before(f, a, b) ==
    /\ Did(f, b)
    /\ \A j \in DOMAIN trace[f] :
          trace[f][j].op = b => \E i \in 1..(j - 1) : trace[f][i].op = a

\* C1: no file is ever counted twice, the counters are the number of files
\* that recorded a success and a failure, and once convertAll has finished its
\* conversions (the report is logged) every discovered file has incremented
\* exactly one of stats.successful / stats.failed exactly once, so that
\* successful + failed = total.
C1_ExactlyOneOutcome ==
    /\ \A f \in Files : Recorded(f) <= 1
    /\ stats.successful = Cardinality({f \in Files : result[f].successful = 1})
    /\ stats.failed = Cardinality({f \in Files : result[f].failed = 1})
    /\ reported =>
          /\ \A f \in Discovered : Recorded(f) = 1
          /\ \A f \in Files \ Discovered : Recorded(f) = 0
          /\ stats.successful + stats.failed = stats.total

C1_Witness ==
    /\ reported /\ ParallelMode
    /\ htmlFiles = MaxParallelFiles
    /\ stats.successful >= 1 /\ stats.failed >= 1

\* C2 (as claimed): a failure raised in any step of a convertFile of a batch,
\* closing the page included, is caught inside the conversion and never
\* leaves convertFile: convertAll is never cut short by it once it has started
\* its conversions.
C2_NoFailureLeavesConvertFile ==
    mode = "all" =>
        /\ \A f \in Files : cpc[f] \notin {"threw", "killed"}
        /\ started > 0 => bpc # "exited"

\* C3: a convertFile call that has returned has closed the page it opened;
\* after convertAll / convertSingle has returned no page is open; no call
\* opens more than one page.
C3_PagesClosed ==
    /\ \A f \in Files : cpc[f] \in {"done", "finished"} => f \notin openPages
    /\ \A f \in Files : Live(f) => Count(f, "open") <= 1
    /\ \A f \in Files : f \in openPages => bpc = "exited" \/ (hasPage[f] /\ Live(f))
    /\ bpc = "returned" => openPages = {}

C3_Witness ==
    \E f \in Files :
        /\ cpc[f] = "done" /\ failedAt[f] = "pdf"
        /\ Did(f, "open") /\ Did(f, "renderTimeout") /\ Did(f, "close")
        /\ f \notin openPages

C6_ReadinessTimeoutDegrades ==
    \A f \in Files : Live(f) =>
        /\ failedAt[f] # "readiness"
        /\ Did(f, "renderTimeout") =>
              /\ cpc[f] \notin {"readiness", "qrGenerate", "qrInject", "tableScan"}
              /\ trace[f][Pos(f, "renderTimeout")].t = RenderTimeout
              /\ failedAt[f] \in {"none", "svgCount", "ensureDir", "pdf", "stat"}
              /\ failedAt[f] = "none" /\ cpc[f] \in {"close", "done", "threw"} =>
                    /\ Did(f, "capture")
                    /\ result[f] = [successful |-> 1, failed |-> 0]
              /\ failedAt[f] = "none" => result[f].failed = 0

C6_Witness ==
    \E f \in Files :
        /\ cpc[f] = "done" /\ Did(f, "renderTimeout") /\ Did(f, "capture")
        /\ result[f] = [successful |-> 1, failed |-> 0]

\* C7: each secondary wait runs only when config.waitConditions is present and
\* its flag is set, the two waitForFunction calls each with the deadline of
\* their own; none of them ever raises into the conversion, and a call whose
\* secondary waits timed out and that went through the capture without another
\* step failing has issued the capture and is counted successful.
WaitRan(f, pc, ops) == cpc[f] = pc \/ \E op \in ops : Did(f, op)

C7_SecondaryWaitsDegrade ==
    LET wc == config.waitConditions IN
    \A f \in Files : Live(f) =>
        /\ WaitRan(f, "waitSVGs", {"svgWait", "svgTimeout"}) => wc.present /\ wc.waitForSVGs
        /\ WaitRan(f, "waitImages", {"imgWait", "imgTimeout"}) => wc.present /\ wc.waitForImages
        /\ WaitRan(f, "delay", {"delay"}) => wc.present /\ wc.additionalWaitTime
        /\ \A i \in DOMAIN trace[f] :
              /\ trace[f][i].op \in {"svgWait", "svgTimeout"} => trace[f][i].t = SVGTimeout
              /\ trace[f][i].op \in {"imgWait", "imgTimeout"} => trace[f][i].t = ImageTimeout
        /\ failedAt[f] \notin {"waitSVGs", "waitImages", "delay"}
        /\ Did(f, "svgTimeout") \/ Did(f, "imgTimeout") =>
              /\ failedAt[f] \in {"none", "ensureDir", "pdf", "stat"}
              /\ failedAt[f] = "none" => result[f].failed = 0
              /\ failedAt[f] = "none" /\ cpc[f] \in {"close", "done", "threw"} =>
                    /\ Did(f, "capture")
                    /\ result[f] = [successful |-> 1, failed |-> 0]

C7_Witness ==
    \E f \in Files :
        /\ cpc[f] = "done" /\ Did(f, "svgTimeout") /\ Did(f, "imgTimeout")
        /\ Did(f, "delay") /\ Did(f, "ready") /\ Did(f, "capture")
        /\ result[f] = [successful |-> 1, failed |-> 0]

\* C8: a failure of the capture step (ensureDirectory, page.pdf or stat
\* rejecting) counts the document in stats.failed and never in
\* stats.successful; stats.successful is incremented for a document only
\* after page.pdf and the stat that follows it have completed.
C8_CaptureFailureIsFailure ==
    \A f \in Files : Live(f) =>
        /\ failedAt[f] \in {"ensureDir", "pdf", "stat"} =>
              result[f] = [successful |-> 0, failed |-> 1]
        /\ cpc[f] \in {"ensureDir", "pdf", "stat"} => result[f] = NoResult
        /\ result[f].successful > 0 =>
              /\ result[f] = [successful |-> 1, failed |-> 0]
              /\ failedAt[f] = "none"
              /\ Before(f, "capture", "recordSuccessful")
              /\ Count(f, "recordSuccessful") = 1
              /\ cpc[f] \in {"close", "done", "threw"}

C8_Witness ==
    \E f, g \in Files :
        /\ cpc[f] = "done" /\ failedAt[f] = "stat" /\ Did(f, "capture")
        /\ result[f] = [successful |-> 0, failed |-> 1]
        /\ result[g] = [successful |-> 1, failed |-> 0]

\* C9: a navigation failure is document-local: the document is counted failed
\* (once) and not successful, no style injection, table scan, QR injection or
\* capture is performed for it, the call goes to close its page and leaves no
\* page open when it returns; the rejection does not leave convertFile (only a
\* call that has already recorded its outcome can throw), and once the call
\* has returned the batch goes on.
BatchGoesOn == ENABLED (Continue \/ Report \/ SingleDone)

C9_NavigationFailureIsLocal ==
    /\ \A f \in Files :
          failedAt[f] = "goto" =>
              /\ result[f] = [successful |-> 0, failed |-> 1]
              /\ \A op \in {"navigate", "styles", "tables", "qr", "capture"} : ~Did(f, op)
              /\ cpc[f] \in {"close", "done", "threw"}
              /\ cpc[f] = "done" => f \notin openPages /\ Did(f, "close")
              /\ cpc[f] = "done" /\ bpc = "convert" /\ (\A g \in Awaited : cpc[g] = "done")
                    => BatchGoesOn
    /\ \A f \in Files : cpc[f] = "threw" => Recorded(f) = 1 /\ hasPage[f]

C9_Witness ==
    \E f \in Files :
        /\ failedAt[f] = "goto" /\ cpc[f] = "done" /\ bpc = "convert"
        /\ started < htmlFiles
        /\ ENABLED Continue

\* C10: copyToSource is called iff stats.successful > 0 once all conversions
\* have completed, and only then: never before the report, never while a
\* conversion of the batch is unfinished, and never by a batch in which every
\* document failed.
C10_PublishIffSuccess ==
    /\ published =>
          /\ reported /\ mode = "all"
          /\ stats.successful > 0
          /\ \A f \in Discovered : cpc[f] = "finished"
          /\ stats.successful + stats.failed = stats.total
    /\ reported => (published <=> stats.successful > 0)
    /\ bpc = "copy" => published
    /\ reported /\ stats.failed = stats.total => ~published

C10_Witness ==
    /\ published /\ bpc = "returned"
    /\ stats = [total |-> 5, successful |-> 4, failed |-> 1]

\* ---------------------------------------------------------------- deterministic outcomes
\* convertAll over documents whose outcome is fixed: document f rejects at the
\* await plan[f] in every run ("none": every await of its conversion resolves).
\* The rejections studied: navigation, capture, and closing the page.
PlanPoints == {"none", "goto", "pdf", "close"}

Plans ==
    {pl \in [Files -> PlanPoints] : \A f \in Files : f > MaxParallelFiles => pl[f] = "none"}

\* Batches in sequential mode (parallel = 1) and in parallel mode.
DetInputs == [mode : {"all"}, parallel : 1..MaxParallel, config : ParallelConfigs]

InitDet ==
    /\ \E in \in DetInputs, pl \in Plans : Start(in, pl)
    /\ RestIdle

\* convertFile when config has neither qrCode nor waitConditions.
ConvertFilePlain(f) ==
    \/ NewPage(f) \/ SetViewport(f) \/ Goto(f) \/ EvalLang(f) \/ LoadStyles(f)
    \/ AddStyles(f) \/ AddDate(f) \/ AddPageStyles(f) \/ TableScan(f)
    \/ Readiness(f) \/ SvgCount(f) \/ EnsureDir(f) \/ Pdf(f) \/ Stat(f)
    \/ ClosePage(f)

NextBatch ==
    \/ InitConverter
    \/ Launch
    \/ Discover
    \/ \E f \in Files : ConvertFilePlain(f)
    \/ Continue
    \/ Report
    \/ CopyToSource
    \/ CloseBrowser

SpecDet == InitDet /\ [][NextBatch]_vars

\* convertAll in parallel mode, the outcome of every await left open.
ParInputs == [mode : {"all"}, parallel : 2..MaxParallel, config : ParallelConfigs]

InitPar ==
    /\ \E in \in ParInputs : Start(in, [f \in Files |-> "any"])
    /\ RestIdle

SpecPar == InitPar /\ [][NextBatch]_vars

\* What the conversion of f records when it runs: the catch block counts a
\* rejection inside the try block, everything else reaches successful++.
PlannedResult(f) ==
    IF plan[f] \in {"none", "close"}
    THEN [successful |-> 1, failed |-> 0]
    ELSE [successful |-> 0, failed |-> 1]

\* What the sequential loop leaves for f: its planned result, unless the loop
\* was ended by an earlier document (its page.close() rejected).
SequentialResult(f) ==
    IF \E g \in 1..(f - 1) : plan[g] = "close" THEN NoResult ELSE PlannedResult(f)

Ended == bpc \in {"returned", "exited"}

SameAsSequential ==
    /\ \A f \in Discovered : result[f] = SequentialResult(f)
    /\ stats.successful =
          Cardinality({f \in Discovered : SequentialResult(f).successful = 1})
    /\ stats.failed =
          Cardinality({f \in Discovered : SequentialResult(f).failed = 1})

\* The sequential runs end with SequentialResult.
SequentialBaseline == (Ended /\ ~ParallelMode) => SameAsSequential

\* C11 (as claimed): with the outcome of every document fixed, a run of
\* convertAll in parallel mode ends, whatever the interleaving of its
\* conversions, with the successful documents, the failed documents and the
\* stats of the sequential run over the same files.
C11_ParallelSameAsSequential == (Ended /\ ParallelMode) => SameAsSequential

\* ---------------------------------------------------------------- parallel mode
\* The call of f is waiting for the page: readiness poll or capture.
Waiting(f) == cpc[f] \in {"readiness", "pdf"}

\* The call of f has been started and has not returned or thrown.
Running(f) == cpc[f] \notin {"idle", "finished", "killed", "done", "threw"}

\* The await the call of f is suspended at can resolve now, and the call runs on.
CanAdvance(f) ==
    ENABLED (ConvertFilePlain(f) /\ failedAt'[f] = failedAt[f] /\ bpc' = bpc)

\* convertAll can start the documents it has not started yet.
CanStartNext == ENABLED Continue

\* C12 (as claimed): in parallel mode, while one conversion is waiting
\* (readiness poll or capture), every other document of the batch that is not
\* converted yet can go on: start if it has not been started, advance if it has.
C12_SlowBlocksNoDocument ==
    (ParallelMode /\ bpc = "convert") =>
        \A f, g \in Discovered :
            (Waiting(f) /\ g # f) =>
                /\ Running(g) => CanAdvance(g)
                /\ g > started => CanStartNext

\* C12 (amended): in parallel mode a waiting conversion does not block the
\* conversions of its own chunk, each of which can advance whatever the others
\* do; the documents of the later chunks can start exactly when every
\* conversion of the current chunk has returned; and a conversion is cut short
\* only by the exit of the process.
C12_SlowBlocksLaterChunksOnly ==
    /\ (ParallelMode /\ bpc = "convert") =>
          /\ \A g \in Discovered : Running(g) => CanAdvance(g)
          /\ started < htmlFiles =>
                (CanStartNext <=> \A f \in Awaited : cpc[f] = "done")
    /\ \A g \in Files : cpc[g] = "killed" => bpc = "exited"

C12_Witness ==
    /\ ParallelMode /\ bpc = "convert" /\ started < htmlFiles
    /\ \E f, g \in Discovered :
          /\ Waiting(f) /\ cpc[g] = "done" /\ f < g
          /\ ~CanStartNext

\* The chunk htmlFiles.slice(i, i + parallel) file f belongs to (chunks of one
\* file in sequential mode), counted from 0.
Chunk(f) == (f - 1) \div parallel

\* The conversions in flight: started and not yet returned, thrown or killed.
InFlight == {f \in Files : Running(f)}

\* C13: never more than options.parallel conversions are in flight, nor pages
\* open (one in sequential mode); the files are converted in consecutive
\* chunks of options.parallel files, and while convertAll converts, the calls
\* it has made and not yet collected are exactly one chunk: every file of the
\* earlier chunks has returned and recorded its outcome, no file of a later
\* chunk has been started.
C13_ChunksBoundInFlight ==
    /\ Cardinality(InFlight) <= parallel
    /\ Cardinality(openPages) <= parallel
    /\ (mode = "all" /\ bpc = "convert") =>
          \A f \in Discovered :
             /\ Chunk(f) < Chunk(started) => (cpc[f] = "finished" /\ Recorded(f) = 1)
             /\ Chunk(f) = Chunk(started) => cpc[f] \notin {"idle", "finished"}
             /\ Chunk(f) > Chunk(started) => (cpc[f] = "idle" /\ Recorded(f) = 0)

C13_Witness ==
    /\ ParallelMode /\ bpc = "convert"
    /\ started > parallel
    /\ \E f \in Discovered : Chunk(f) = Chunk(started) /\ Waiting(f)
    /\ \E f \in Discovered : Chunk(f) < Chunk(started)

\* C14: in parallel mode no update of this.stats is lost: at every moment of
\* every interleaving stats.successful and stats.failed are the numbers of
\* conversions that have recorded a success and a failure, and they never
\* exceed the number of files.
C14_NoLostUpdate ==
    ParallelMode =>
        /\ stats.successful = Cardinality({f \in Files : result[f].successful >= 1})
        /\ stats.failed = Cardinality({f \in Files : result[f].failed >= 1})
        /\ stats.successful + stats.failed <= stats.total

\* Two conversions of one chunk have both recorded before either returned.
C14_Witness ==
    /\ ParallelMode /\ bpc = "convert"
    /\ \E f, g \in Discovered :
          /\ f # g /\ Chunk(f) = Chunk(g)
          /\ cpc[f] = "close" /\ cpc[g] = "close"
          /\ result[f].successful = 1 /\ result[g].successful = 1
    /\ stats.successful >= 2

\* ---------------------------------------------------------------- empty batch
\* C20: when findHTMLFiles returns no file, convertAll warns and does nothing
\* else: no page is opened, no conversion is started, nothing is captured or
\* recorded, copyToSource is not called, the process does not exit, and the
\* only step left closes the browser that was launched.
C20_EmptyBatchIsNoOp ==
    mode = "all" =>
        /\ (htmlFiles = 0 /\ bpc \in {"convert", "copy", "closeBrowser", "returned"}) => warned
        /\ warned =>
              /\ htmlFiles = 0 /\ started = 0
              /\ openPages = {}
              /\ \A f \in Files : cpc[f] = "idle" /\ trace[f] = <<>> /\ Recorded(f) = 0
              /\ ~published
              /\ bpc \in {"closeBrowser", "returned"}
              /\ bpc = "closeBrowser" => (browser = "open" /\ ENABLED CloseBrowser)
              /\ bpc = "returned" => browser = "closed"

C20_Witness == mode = "all" /\ warned /\ bpc = "returned" /\ browser = "closed"

\* ---------------------------------------------------------------- QR failure
\* What the call of f did to its page, the QR block left out.
WithoutQR(f) == SelectSeq(trace[f], LAMBDA e : e.op \notin {"qr", "qrWarn"})

\* What a call has done when it reaches the readiness wait with qrCode.enabled = false.
PlainPrefix == <<Ev("open", 0), Ev("config", 0), Ev("navigate", 0), Ev("styles", 0),
                 Ev("tables", 0)>>

QRFailed(f) == Did(f, "qrWarn")

\* The waits after the QR block are chosen without reading qrCode.enabled.
WaitsIgnoreQR ==
    \A c \in Configs, k \in 1..3 :
        NextWait(c, k) = NextWait([c EXCEPT !.qrEnabled = ~@], k)

\* C17: a failing QR block never fails the conversion: the failure is not the
\* one the catch block records, it is logged as a warning once and nothing is
\* injected; the call reaches the readiness wait in the state of a call with
\* qrCode.enabled = false (same operations on the page, nothing recorded),
\* what follows does not read the QR configuration, and the outcome is
\* decided by the later steps alone: a success if none of them rejects.
C17_QRFailureIsHarmless ==
    /\ WaitsIgnoreQR
    /\ \A f \in Files : Live(f) =>
          /\ failedAt[f] \notin {"qrGenerate", "qrInject"}
          /\ cpc[f] = "readiness" =>
                /\ WithoutQR(f) = PlainPrefix
                /\ failedAt[f] = "none" /\ Recorded(f) = 0 /\ hasPage[f]
          /\ QRFailed(f) =>
                /\ Count(f, "qrWarn") = 1 /\ ~Did(f, "qr")
                /\ cpc[f] \notin {"qrGenerate", "qrInject"}
                /\ Did(f, "capture") => Before(f, "ready", "capture")
                                         \/ Before(f, "renderTimeout", "capture")
                /\ (cpc[f] = "done" /\ failedAt[f] = "none") =>
                      (result[f].successful = 1 /\ Did(f, "capture"))
                /\ result[f].failed = 1 => failedAt[f] # "none"

C17_Witness ==
    \E f \in Files :
        /\ cpc[f] = "done" /\ QRFailed(f)
        /\ Did(f, "capture") /\ result[f].successful = 1

\* ---------------------------------------------------------------- one page
\* One call of convertFile seen from its page: the configuration it resolves,
\* the tables of the document and the QR block.  Every await resolves here
\* (rejections are the subject of Spec); the page's own scripts render the
\* pending tables while convertFile goes through its awaits.
MaxRows == 7     \* body rows of a table

mainVars == <<mode, parallel, config, bpc, browser, htmlFiles, started, stats,
              reported, published, openPages, cpc, hasPage, trace, failedAt, result,
              warned, plan, copyVars, discVars, cliVars, prepVars>>

\* The objects with properties among DOMAIN values, property k valued in values[k].
ObjectsOver(values) ==
    UNION {{o \in [S -> UNION {values[k] : k \in S}] : \A k \in S : o[k] \in values[k]}
           : S \in SUBSET DOMAIN values}

MapsOver(keys, objects) == UNION {[S -> objects] : S \in SUBSET keys}

\* config.defaults and config.documents[type]: page rules.
FieldValues == [format |-> {"A4", "A3"}, orientation |-> {"portrait", "landscape"}]


PageRules == ObjectsOver(FieldValues)

\* What getDocumentType(filePath) returns for the files of the site.
DocumentTypes == {"dashboard", "report"}

\* config.qrCode and config.qrCode.documents[type].
QRValues == [enabled |-> {"true", "false"}, position |-> {"top-right", "bottom-left"}]

QRObjects == ObjectsOver(QRValues)

\* The table elements a document can hold.
Tables ==
    [head : 0..1, body : 0..MaxRows, nested : 0..1, classes : {{}, {"striped"}},
     scanned : {FALSE}]

\* No table or one table.
TableLists == {<<>>} \cup {<<t>> : t \in Tables}

\* The conversions explored: the page rules vary, or the QR configuration,
\* or the tables in the HTML file (dom) and those its scripts render later.
ConfigCases ==
    [config : [sections : {AllSections}, defaults : PageRules,
               documents : MapsOver(DocumentTypes, PageRules), qrCode : {NoQRCode}],
     type : DocumentTypes, dom : {<<>>}, late : {<<>>}, content : {NoContent}]

\* A configuration file that is valid JSON and lacks a section.
MalformedCases ==
    {in \in [config : [sections : SUBSET AllSections, defaults : PageRules,
                       documents : MapsOver({"dashboard"}, {[format |-> "A3"]}),
                       qrCode : {NoQRCode}],
             type : DocumentTypes, dom : {<<>>}, late : {<<>>}, content : {NoContent}] :
        /\ in.config.sections # AllSections
        /\ "defaults" \notin in.config.sections => in.config.defaults = NoObject
        /\ "documents" \notin in.config.sections => in.config.documents = NoObject}

\* The page rules page.pdf reads, and the `orientation` of the documented
\* configuration.
CaptureValues ==
    [format |-> {"A4", "A3"}, orientation |-> {"portrait", "landscape"},
     landscape |-> {"true", "false"}, margin |-> {"20mm"}, printBackground |-> {"true"},
     preferCSSPageSize |-> {"true"}, displayHeaderFooter |-> {"true"}]

\* The `timeout` page rule, in milliseconds (0: falsy).
TimeoutValues == [timeout |-> {0, 5000, 60000}]

\* Every page rule a configuration of the model may hold.
Fields == DOMAIN FieldValues \cup DOMAIN CaptureValues \cup DOMAIN TimeoutValues

TimeoutCases ==
    [config : [sections : {AllSections}, defaults : ObjectsOver(TimeoutValues),
               documents : {NoObject}, qrCode : {NoQRCode}],
     type : {"report"}, dom : {<<>>}, late : {<<>>},
     content : {NoContent, [NoContent EXCEPT !.loading = TRUE]}]

CaptureCases ==
    [config : [sections : {AllSections}, defaults : ObjectsOver(CaptureValues),
               documents : {NoObject}, qrCode : {NoQRCode}],
     type : {"report"}, dom : {<<>>}, late : {<<>>}, content : {NoContent}]

\* What the readiness predicate looks at: whether an observablehq-loading
\* element is left, the kinds of svg elements, of [id^="cell-"] elements and
\* of img elements the page holds.
Contents ==
    [loading : BOOLEAN, svgs : SUBSET {"empty", "filled"},
     cells : SUBSET {"empty", "filled"}, images : SUBSET {"complete", "incomplete"}]

ReadyCases ==
    [config : {NoPageInput}, type : {"report"}, dom : {<<>>}, late : {<<>>},
     content : Contents]

QRCases ==
    [config : [sections : {AllSections}, defaults : {NoObject}, documents : {NoObject},
               qrCode : [top : QRObjects, documents : MapsOver(DocumentTypes, QRObjects)]],
     type : DocumentTypes, dom : {<<>>}, late : {<<>>}, content : {NoContent}]

TableCases ==
    [config : {NoPageInput}, type : {"report"}, dom : TableLists, late : TableLists,
     content : {NoContent}]

PageInputs ==
    ConfigCases \cup QRCases \cup TableCases \cup MalformedCases \cup CaptureCases
    \cup ReadyCases \cup TimeoutCases

\* convertSingle(filePath) has called convertFile(filePath), browser.newPage()
\* has resolved: the state Spec reaches by InitConverter, Launch and NewPage.
InitPage ==
    \E in \in PageInputs :
        /\ mode = "single"
        /\ parallel = 1
        /\ config = [qrEnabled |-> Truthy(in.config.qrCode.top, "enabled"),
                     waitConditions |-> [present |-> FALSE, waitForSVGs |-> FALSE,
                                         waitForImages |-> FALSE,
                                         additionalWaitTime |-> FALSE]]
        /\ plan = [f \in Files |-> "any"]
        /\ warned = FALSE
        /\ bpc = "convert"
        /\ browser = "open"
        /\ htmlFiles = 0
        /\ started = 1
        /\ stats = [total |-> 1, successful |-> 0, failed |-> 0]
        /\ reported = FALSE
        /\ published = FALSE
        /\ openPages = {1}
        /\ cpc = [f \in Files |-> IF f = 1 THEN "setViewport" ELSE "idle"]
        /\ hasPage = [f \in Files |-> f = 1]
        /\ trace = [f \in Files |-> IF f = 1 THEN <<Ev("open", 0)>> ELSE <<>>]
        /\ failedAt = [f \in Files |-> "none"]
        /\ result = [f \in Files |-> NoResult]
        /\ ppc = "setViewport"
        /\ pconfig = in.config
        /\ documentType = in.type
        /\ pageConfig = NoObject
        /\ tables = in.dom
        /\ pending = in.late
        /\ qr = NoQR
        /\ content = in.content
        /\ wait = "none"
        /\ pdfOptions = NoObject
        /\ CopyIdle /\ DiscoveryIdle /\ CLIIdle /\ AssetsIdle

\* await page.setViewport(...); const pageConfig = this.getPageConfig(filePath);
\* then await page.goto(...)
\* this.config after a merge of convertFile, were the merge written into the
\* configuration (Object.assign(this.config.defaults, ...), or into
\* this.config.qrCode).
ConfigAfterAssign(cfg, type, merge) ==
    IF merge = "pageConfig"
    THEN [cfg EXCEPT !.defaults = getPageConfig(cfg, type)]
    ELSE [cfg EXCEPT !.qrCode.top = ResolveQRConfig(cfg.qrCode, type)]

\* this.config after a merge of convertFile: `{...this.config.defaults,
\* ...specificConfig}` and `{...this.config.qrCode, ...overrides}` build a new
\* object and assign nothing.
ConfigAfterMerge(cfg, type, merge) == cfg

\* getPageConfig throwing is caught by the catch block of convertFile:
\* this.stats.failed++ for this document.
PageSetViewport ==
    /\ ppc = "setViewport"
    /\ IF getPageConfigThrows(pconfig)
       THEN /\ ppc' = "failed"
            /\ stats' = Increment(stats, "failed")
            /\ result' = [result EXCEPT ![1] = Increment(@, "failed")]
            /\ UNCHANGED <<mode, parallel, config, bpc, browser, htmlFiles, started,
                           reported, published, openPages, cpc, hasPage, trace,
                           failedAt, warned, plan, copyVars, discVars, cliVars,
                           prepVars, pageConfig, pconfig>>
       ELSE /\ pageConfig' = getPageConfig(pconfig, documentType)
            /\ pconfig' = ConfigAfterMerge(pconfig, documentType, "pageConfig")
            /\ ppc' = "goto"
            /\ UNCHANGED mainVars
    /\ UNCHANGED <<documentType, tables, pending, qr, content, wait, pdfOptions>>

\* The deadline of page.goto: `timeout: pageConfig.timeout || 30000`.
NavigationTimeout == 30000

GotoTimeout(rules) ==
    IF "timeout" \in DOMAIN rules /\ rules["timeout"] # 0
    THEN rules["timeout"]
    ELSE NavigationTimeout

\* What a step of the page leaves alone when it records its deadline.
pageFrame ==
    <<mode, parallel, config, bpc, browser, htmlFiles, started, stats, reported,
      published, openPages, cpc, hasPage, failedAt, result, warned, plan, copyVars,
      discVars, cliVars, prepVars>>

\* await page.goto(fileUrl, {waitUntil, timeout}): the document is loaded, its
\* tables are in the page.
PageGoto ==
    /\ ppc = "goto"
    /\ trace' = [trace EXCEPT ![1] = Append(@, Ev("navigate", GotoTimeout(pageConfig)))]
    /\ ppc' = "styles"
    /\ UNCHANGED <<pageFrame, pconfig, documentType, pageConfig, tables, pending, qr,
                   content, wait, pdfOptions>>

\* lang attribute and the style tags: nothing of a table changes.
PageStyles ==
    /\ ppc = "styles"
    /\ ppc' = "tableScan"
    /\ UNCHANGED <<mainVars, pconfig, documentType, pageConfig, tables, pending, qr, content, wait, pdfOptions>>

\* The page's scripts insert a table they had still to render, at any moment
\* between the end of navigation and the end of the readiness wait.
PageRender ==
    /\ ppc \in {"styles", "tableScan", "qrGenerate", "qrInject", "readiness"}
    /\ pending # <<>>
    /\ tables' = Append(tables, Head(pending))
    /\ pending' = Tail(pending)
    /\ UNCHANGED <<mainVars, ppc, pconfig, documentType, pageConfig, qr, content, wait, pdfOptions>>

\* await page.evaluate(table scan) over document.querySelectorAll('table'),
\* then `if (this.config.qrCode && this.config.qrCode.enabled)`.
PageTableScan ==
    /\ ppc = "tableScan"
    /\ tables' = [i \in DOMAIN tables |-> ScanTable(tables[i])]
    /\ ppc' = IF Truthy(pconfig.qrCode.top, "enabled") THEN "qrGenerate" ELSE "readiness"
    /\ UNCHANGED <<mainVars, pconfig, documentType, pageConfig, pending, qr, content, wait, pdfOptions>>

\* qrConfig is resolved; await this.qrGenerator.generateForFile(filePath, qrConfig):
\* a data URL (`if (qrDataUrl)`: on to the injection), a falsy value, or a
\* throw that the inner catch logs as a warning.
PageQRGenerate ==
    /\ ppc = "qrGenerate"
    /\ LET qrConfig == ResolveQRConfig(pconfig.qrCode, documentType) IN
       \E out \in generateForFile(qrConfig) :
          /\ qr' = [config |-> qrConfig, generated |-> out = "dataUrl",
                    injected |-> FALSE, warned |-> out = "throws"]
          /\ ppc' = IF out = "dataUrl" THEN "qrInject" ELSE "readiness"
    /\ pconfig' = ConfigAfterMerge(pconfig, documentType, "qrConfig")
    /\ UNCHANGED <<mainVars, documentType, pageConfig, tables, pending, content, wait, pdfOptions>>

\* generateURL, generateInjectionScript, await page.evaluate(injectionScript):
\* the QR code is in the page, or one of them threw and the inner catch warns.
PageQRInject ==
    /\ ppc = "qrInject"
    /\ \E ok \in BOOLEAN : qr' = [qr EXCEPT !.injected = ok, !.warned = ~ok]
    /\ ppc' = "readiness"
    /\ UNCHANGED <<mainVars, pconfig, documentType, pageConfig, tables, pending, content, wait, pdfOptions>>

\* await page.waitForFunction(predicate, {timeout: 30000}).catch(...): the
\* wait resolves when the predicate holds of the page, and otherwise times out
\* (a warning, and the conversion goes on).
PageReadiness ==
    /\ ppc = "readiness"
    /\ wait' = IF RenderReady(content) THEN "ready" ELSE "timeout"
    /\ trace' = [trace EXCEPT ![1] =
                    Append(@, Ev(IF RenderReady(content) THEN "ready" ELSE "renderTimeout",
                                 RenderTimeout))]
    /\ ppc' = "pdf"
    /\ UNCHANGED <<pageFrame, pconfig, documentType, pageConfig, tables, pending, qr,
                   content, pdfOptions>>

\* await page.pdf({path, format: pageConfig.format, landscape: pageConfig.landscape,
\* margin, printBackground, preferCSSPageSize, displayHeaderFooter}): the page
\* is captured as it is.
PagePdf ==
    /\ ppc = "pdf"
    /\ pdfOptions' = PdfOptions(pageConfig)
    /\ ppc' = "done"
    /\ UNCHANGED <<mainVars, pconfig, documentType, pageConfig, tables, pending, qr,
                   content, wait>>

NextPage ==
    \/ PageSetViewport
    \/ PageGoto
    \/ PageStyles
    \/ PageRender
    \/ PageTableScan
    \/ PageQRGenerate
    \/ PageQRInject
    \/ PageReadiness
    \/ PagePdf

SpecPage == InitPage /\ [][NextPage]_vars

\* ---------------------------------------------------------------- page properties
\* convertFile holds the resolved page rules (getPageConfig returned).
Configured == ppc \notin {"idle", "setViewport", "failed"}

\* The entry of the document's type in config.documents, if any.
HasOverride == documentType \in DOMAIN pconfig.documents

\* C15: getPageConfig is an override-wins shallow merge: a field of the type's
\* entry has the entry's value, a field only in config.defaults has the
\* default's, no other field appears, and without an entry for the type the
\* result is config.defaults; so defaults {format: A4} with documents.dashboard
\* {format: A3, orientation: landscape} give dashboard the latter and report
\* {format: A4}.
C15_OverrideWinsMerge ==
    /\ Configured =>
          /\ \A k \in Fields :
                IF HasOverride /\ k \in DOMAIN pconfig.documents[documentType]
                THEN k \in DOMAIN pageConfig
                     /\ pageConfig[k] = pconfig.documents[documentType][k]
                ELSE IF k \in DOMAIN pconfig.defaults
                THEN k \in DOMAIN pageConfig /\ pageConfig[k] = pconfig.defaults[k]
                ELSE k \notin DOMAIN pageConfig
          /\ DOMAIN pageConfig \subseteq Fields
          /\ ~HasOverride => pageConfig = pconfig.defaults
    /\ LET example ==
              [defaults |-> [format |-> "A4"],
               documents |-> [dashboard |-> [format |-> "A3", orientation |-> "landscape"]]]
       IN /\ getPageConfig(example, "dashboard") = [format |-> "A3", orientation |-> "landscape"]
          /\ getPageConfig(example, "report") = [format |-> "A4"]

\* The type's entry changes one default and leaves another one alone.
C15_Witness ==
    /\ Configured /\ HasOverride
    /\ \E k \in DOMAIN pconfig.defaults \cap DOMAIN pconfig.documents[documentType] :
          /\ pconfig.defaults[k] # pconfig.documents[documentType][k]
          /\ pageConfig[k] = pconfig.documents[documentType][k]
    /\ \E k \in DOMAIN pconfig.defaults \ DOMAIN pconfig.documents[documentType] :
          pageConfig[k] = pconfig.defaults[k]

\* `enabled` of the QR configuration resolved for the document's type: the
\* type's own value if its entry has one, the top-level value otherwise.
QROverride == EntryOrEmpty(pconfig.qrCode.documents, documentType)

ResolvedEnabled ==
    IF "enabled" \in DOMAIN QROverride THEN QROverride["enabled"] = "true"
    ELSE Truthy(pconfig.qrCode.top, "enabled")

\* C16: when the QR configuration resolved for the document's type has
\* enabled = false, no QR code is generated and none is injected, also when
\* enabled is true at top level and false only in the type's entry.
C16_DisabledQRIsNoOp ==
    ~ResolvedEnabled => (~qr.generated /\ ~qr.injected)

\* Enabled at top level, disabled for the type: the block ran and did nothing.
C16_Witness ==
    /\ ppc = "done"
    /\ Truthy(pconfig.qrCode.top, "enabled")
    /\ "enabled" \in DOMAIN QROverride /\ QROverride["enabled"] = "false"
    /\ qr.config # NoObject
    /\ ~qr.generated /\ ~qr.injected /\ ~qr.warned

\* The scan has run.
Scanned == ppc \in {"qrGenerate", "qrInject", "readiness", "pdf", "done"}

Marked(t) == "small-table" \in t.classes

\* C18 (as claimed): a scanned table has the class exactly when it has at
\* most 6 data rows of its own, header rows and rows of nested tables left out.
C18_SmallByDataRows ==
    \A i \in DOMAIN tables : tables[i].scanned => (Marked(tables[i]) <=> tables[i].body <= 6)

\* C18 (amended): a scanned table has the class exactly when it holds at most
\* 6 tr elements in all: header rows and the rows of nested tables count like
\* its own data rows; with 7 or more it does not get the class.
C18_SmallByAllRows ==
    \A i \in DOMAIN tables :
        tables[i].scanned =>
            (Marked(tables[i]) <=>
                tables[i].head + tables[i].body + tables[i].nested <= 6)

\* At the boundary: six data rows and a header row, seven tr, not marked.
C18_Witness ==
    /\ Scanned
    /\ \E i \in DOMAIN tables :
          /\ tables[i].scanned /\ tables[i].body = 6 /\ tables[i].head = 1
          /\ ~Marked(tables[i])
    
\* C19 (as claimed): at capture every table of the page is classified, the
\* tables rendered between the end of navigation and the end of the readiness
\* wait included, and no class was removed.
C19_AllTablesClassifiedAtCapture ==
    ppc = "done" =>
        \A i \in DOMAIN tables :
            /\ tables[i].head + tables[i].body + tables[i].nested <= 6 => Marked(tables[i])
            /\ tables[i].scanned

\* ---------------------------------------------------------------- exit paths
\* C21 (as claimed): convertAll calls process.exit(1) only for an error that
\* precedes the conversions (initialization, browser launch, and, read
\* generously, discovery): once a document has been started the run never
\* exits that way, whatever the documents' outcomes.
C21_ExitOnlyBeforeConversions ==
    (mode = "all" /\ bpc = "exited") => started = 0

\* The awaits of navigation, injection (styles, table scan) and capture.
ConversionSteps ==
    {"goto", "evalLang", "loadStyles", "addStyles", "addDate", "addPageStyles",
     "tableScan", "ensureDir", "pdf", "stat"}

\* C22 (as claimed): in single-file mode, once the conversion of the file has
\* failed in navigation, injection or capture, convertSingle does not go on to
\* its normal end (the finally block and a return): the process exits.
C22_SingleFailureExits ==
    [][(mode = "single" /\ failedAt[1] \in ConversionSteps) => bpc' # "closeBrowser"]_vars

\* C30 (as claimed): on every path on which the invocation ends, the normal
\* return and the exit after a fatal error alike, a browser that was
\* launched has been closed.
C30_BrowserClosedOnEveryExit ==
    bpc \in {"returned", "exited"} => browser # "open"

\* ---------------------------------------------------------------- copyToSource
\* An entry of the output directory tree: its directory below the output
\* root ("" at the root), its name, its extension, and whether this batch
\* wrote it.
Entry(dir, name, ext, produced) ==
    [dir |-> dir, name |-> name, ext |-> ext, produced |-> produced]

NoEntry == Entry("", "", "", FALSE)

\* Where the artifacts of the batch's documents go: at the output root, or
\* in a subdirectory mirroring the document's.
Artifacts ==
    {Entry("", "index", "pdf", TRUE), Entry("", "about", "pdf", TRUE),
     Entry("reports", "q1", "pdf", TRUE)}

\* What else the output directory may hold: the PDF of an earlier run, a file
\* of another kind.
Leftovers == {Entry("", "old", "pdf", FALSE), Entry("", "notes", "txt", FALSE)}

\* fs.readdir(this.outputDir): the entries at the root, subdirectories by name.
Readdir(dir) ==
    {e \in dir : e.dir = ""}
    \cup {Entry("", e.dir, "dir", FALSE) : e \in {x \in dir : x.dir # ""}}

\* outputFiles.filter(f => f.endsWith('.pdf'))
PdfFilter(entries) == {e \in entries : e.ext = "pdf"}

\* The orders readdir may list a set of entries in.
Orders(S) ==
    {s \in [1..Cardinality(S) -> S] : \A i, j \in DOMAIN s : i # j => s[i] # s[j]}

CopyEv(kind, file) == [kind |-> kind, file |-> file]

\* The files of the list whose copy was attempted.
Attempted == {i \in DOMAIN copyLog : copyLog[i].kind \in {"copied", "failed"}}

\* `await fs.access(srcDir)` rejects.
AccessFailsNever(dir) == FALSE

AccessFails(dir) == ~dir.exists

\* Where the loop goes after the copy of file i of n: the try/catch inside
\* the loop catches a failed copy.
NextCopyAborts(ok, i, n) == IF ok /\ i < n THEN "copy" ELSE "returned"

NextCopy(ok, i, n) == IF i < n THEN "copy" ELSE "returned"

\* What copyToSource leaves alone.
copyFrame ==
    <<pageVars, discVars, cliVars, prepVars, plan, warned, mode, parallel, config,
      browser, htmlFiles,
      started, stats, reported, published, openPages, cpc, hasPage, trace, failedAt,
      result>>

\* copyToSource returns to convertAll, whose finally block runs next.
CopyReturn == copc' = "returned" /\ bpc' = "closeBrowser"

\* try { await fs.access(srcDir) } catch { warn; return }
CopyAccess ==
    /\ bpc = "copy" /\ copc = "access"
    /\ IF AccessFails(srcDir)
       THEN /\ copyLog' = Append(copyLog, CopyEv("warn", NoEntry))
            /\ CopyReturn
       ELSE /\ copc' = "readdir"
            /\ UNCHANGED <<copyLog, bpc>>
    /\ UNCHANGED <<copyFrame, outputDir, srcDir, pdfFiles>>

\* await fs.readdir(this.outputDir), the filter, `if (pdfFiles.length === 0)
\* return`; a rejection reaches the outer catch, which logs it.
CopyReaddir ==
    /\ bpc = "copy" /\ copc = "readdir"
    /\ \/ /\ copyLog' = Append(copyLog, CopyEv("error", NoEntry))
          /\ CopyReturn
          /\ UNCHANGED pdfFiles
       \/ /\ pdfFiles' \in Orders(PdfFilter(Readdir(outputDir)))
          /\ IF pdfFiles' = <<>>
             THEN CopyReturn
             ELSE copc' = "copy" /\ UNCHANGED bpc
          /\ UNCHANGED copyLog
    /\ UNCHANGED <<copyFrame, outputDir, srcDir>>

\* One turn of the loop: try { await fs.copyFile(source, dest); success log }
\* catch { error log }.  A copy into a directory that is not there fails.
CopyFile ==
    /\ bpc = "copy" /\ copc = "copy"
    /\ LET i == Cardinality(Attempted) + 1
           file == pdfFiles[i]
       IN \E ok \in BOOLEAN :
            /\ ok => srcDir.exists
            /\ srcDir' = IF ok THEN [srcDir EXCEPT !.files = @ \cup {file}] ELSE srcDir
            /\ copyLog' = Append(copyLog, CopyEv(IF ok THEN "copied" ELSE "failed", file))
            /\ copc' = NextCopy(ok, i, Len(pdfFiles))
            /\ bpc' = IF copc' = "returned" THEN "closeBrowser" ELSE bpc
    /\ UNCHANGED <<copyFrame, outputDir, pdfFiles>>

\* convertAll has reported a batch with a success and calls copyToSource:
\* the output directory holds the batch's artifacts and what was there before.
InitCopy ==
    /\ \E produced \in (SUBSET Artifacts) \ {{}}, left \in SUBSET Leftovers,
          nfailed \in 0..1, exists \in BOOLEAN, c \in BatchConfigs :
        /\ outputDir = produced \cup left
        /\ srcDir = [exists |-> exists, files |-> {}]
        /\ config = c
        /\ htmlFiles = Cardinality(produced) + nfailed
        /\ started = htmlFiles
        /\ stats = [total |-> htmlFiles, successful |-> Cardinality(produced),
                    failed |-> nfailed]
        /\ cpc = [f \in Files |-> IF f <= htmlFiles THEN "done" ELSE "idle"]
    /\ copc = "access" /\ pdfFiles = <<>> /\ copyLog = <<>>
    /\ mode = "all" /\ parallel = 1
    /\ plan = [f \in Files |-> "any"]
    /\ warned = FALSE
    /\ bpc = "copy"
    /\ browser = "open"
    /\ reported = TRUE /\ published = TRUE
    /\ openPages = {}
    /\ hasPage = [f \in Files |-> FALSE]
    /\ trace = [f \in Files |-> <<>>]
    /\ failedAt = [f \in Files |-> "none"]
    /\ result = [f \in Files |-> NoResult]
    /\ PageIdle /\ DiscoveryIdle /\ CLIIdle /\ AssetsIdle

NextCopyToSource == CopyAccess \/ CopyReaddir \/ CopyFile \/ CloseBrowser

SpecCopy == InitCopy /\ [][NextCopyToSource]_vars

\* ---------------------------------------------------------------- findHTMLFiles
\* How many times discovery is run.
MaxRuns == 2

\* The files the tree under distDir may hold: directory below distDir, name,
\* extension.
DistFiles ==
    {[dir |-> "", name |-> "index", ext |-> "html"],
     [dir |-> "drafts", name |-> "wip", ext |-> "html"],
     [dir |-> "reports", name |-> "q1", ext |-> "html"],
     [dir |-> "", name |-> "style", ext |-> "css"]}

\* The patterns config.excludeFiles may list: a directory or a file name,
\* "*" for any.
ExcludePatterns == {[dir |-> "drafts", name |-> "*"], [dir |-> "*", name |-> "index"]}

\* glob(join(this.distDir, '**/*.html'))
GlobHtml(t) == {f \in t : f.ext = "html"}

\* shouldExclude(file, patterns): the file matches one of the patterns.
shouldExclude(file, patterns) ==
    \E p \in patterns : p.dir \in {"*", file.dir} /\ p.name \in {"*", file.name}

findHTMLFilesUnfiltered(t, patterns) == GlobHtml(t)

\* files.filter(file => !shouldExclude(file, this.config.excludeFiles))
findHTMLFiles(t, patterns) == {f \in GlobHtml(t) : ~shouldExclude(f, patterns)}

\* What findHTMLFiles and the file system leave alone.
discFrame ==
    <<pageVars, copyVars, cliVars, prepVars, plan, warned, mode, parallel, config, bpc,
      browser, htmlFiles,
      started, stats, reported, published, openPages, cpc, hasPage, trace, failedAt,
      result, excludeFiles>>

\* await this.findHTMLFiles(): the call and what it returned.
FindHTMLFiles ==
    /\ bpc = "discover"
    /\ Len(found) < MaxRuns
    /\ found' = Append(found, [tree |-> tree, files |-> findHTMLFiles(tree, excludeFiles)])
    /\ UNCHANGED <<discFrame, tree>>

\* Between two runs a file is written to the tree under distDir, or removed.
TreeChange ==
    /\ bpc = "discover"
    /\ \E f \in DistFiles : tree' = IF f \in tree THEN tree \ {f} ELSE tree \cup {f}
    /\ UNCHANGED <<discFrame, found>>

\* convertAll has loaded the configuration and launched the browser.
InitDiscovery ==
    /\ tree \in SUBSET DistFiles
    /\ excludeFiles \in SUBSET ExcludePatterns
    /\ found = <<>>
    /\ mode = "all" /\ parallel = 1
    /\ config \in BatchConfigs
    /\ plan = [f \in Files |-> "any"]
    /\ warned = FALSE
    /\ bpc = "discover"
    /\ browser = "open"
    /\ htmlFiles = 0 /\ started = 0
    /\ stats = [total |-> 0, successful |-> 0, failed |-> 0]
    /\ reported = FALSE /\ published = FALSE
    /\ openPages = {}
    /\ cpc = [f \in Files |-> "idle"]
    /\ hasPage = [f \in Files |-> FALSE]
    /\ trace = [f \in Files |-> <<>>]
    /\ failedAt = [f \in Files |-> "none"]
    /\ result = [f \in Files |-> NoResult]
    /\ PageIdle /\ CopyIdle /\ CLIIdle /\ AssetsIdle

NextDiscovery == FindHTMLFiles \/ TreeChange

SpecDiscovery == InitDiscovery /\ [][NextDiscovery]_vars

\* ---------------------------------------------------------------- CLI
\* The option-arguments of -p explored: decimal digit strings, most
\* significant digit first (<<>>: -p is omitted).
ParallelArgs == {<<>>, <<1>>, <<1, 0>>} \cup {<<n>> : n \in 2..MaxParallel}

\* The number a digit string denotes in base r.
RECURSIVE DigitsValue(_, _)
DigitsValue(ds, r) ==
    IF ds = <<>> THEN 0 ELSE DigitsValue(SubSeq(ds, 1, Len(ds) - 1), r) * r + ds[Len(ds)]

\* The longest prefix of ds whose digits are digits of base r.
RECURSIVE ValidPrefix(_, _)
ValidPrefix(ds, r) ==
    IF ds = <<>> \/ ds[1] >= r THEN <<>> ELSE <<ds[1]>> \o ValidPrefix(Tail(ds), r)

\* parseInt(string, radix) on a digit string: radix 0 (or undefined) is 10, a
\* radix outside 2..36 gives NaN, and so does a string without a leading
\* digit of the base.
parseInt(ds, radix) ==
    LET r == IF radix = 0 THEN 10 ELSE radix IN
    IF r < 2 \/ r > 36 \/ ValidPrefix(ds, r) = <<>>
    THEN [nan |-> TRUE, n |-> 0]
    ELSE [nan |-> FALSE, n |-> DigitsValue(ValidPrefix(ds, r), r)]

\* The default of -p.
DefaultParallel == 1

\* .option('-p, --parallel <number>', ..., parseInt, 1): without -p the value
\* is the default; with -p commander calls the parser with the
\* option-argument and the previous value of the option, the default.
ParallelOption(ds) ==
    IF ds = <<>>
    THEN [nan |-> FALSE, n |-> DefaultParallel]
    ELSE parseInt(ds, DefaultParallel)

\* The module's top-level code: program.parse(), program.opts(), new
\* PDFConverter(...), then convertSingle(options.file, ...) or
\* convertAll({parallel: options.parallel}), which runs up to `await this.init()`.
\* `parallel` holds 0 for NaN: convertAll reads it as `options.parallel &&
\* options.parallel > 1`, and both are falsy.
CLIRun ==
    /\ bpc = "cli"
    /\ LET v == ParallelOption(argv.p) IN
          /\ options' = [parsed |-> TRUE, nan |-> v.nan, parallel |-> v.n, file |-> argv.file]
          /\ parallel' = IF v.nan THEN 0 ELSE v.n
    /\ mode' = IF argv.file THEN "single" ELSE "all"
    /\ bpc' = "init"
    /\ UNCHANGED <<pageVars, copyVars, discVars, prepVars, plan, warned, config, browser,
                   htmlFiles, started, stats, reported, published, openPages, cpc,
                   hasPage, trace, failedAt, result, argv>>

\* The process is started from the command line.
InitCLI ==
    /\ argv \in [p : ParallelArgs, file : BOOLEAN]
    /\ options = NoOptions
    /\ mode = "none" /\ parallel = 0
    /\ config \in BatchConfigs
    /\ plan = [f \in Files |-> "any"]
    /\ warned = FALSE
    /\ bpc = "cli"
    /\ browser = "none"
    /\ htmlFiles = 0 /\ started = 0
    /\ stats = [total |-> 0, successful |-> 0, failed |-> 0]
    /\ reported = FALSE /\ published = FALSE
    /\ openPages = {}
    /\ cpc = [f \in Files |-> "idle"]
    /\ hasPage = [f \in Files |-> FALSE]
    /\ trace = [f \in Files |-> <<>>]
    /\ failedAt = [f \in Files |-> "none"]
    /\ result = [f \in Files |-> NoResult]
    /\ PageIdle /\ CopyIdle /\ DiscoveryIdle /\ AssetsIdle

\* The command line, and the run up to the first conversions.
NextCLI == CLIRun \/ InitConverter \/ Launch \/ Discover \/ CloseBrowser

SpecCLI == InitCLI /\ [][NextCLI]_vars

\* ---------------------------------------------------------------- fixAssetPaths
\* How many times fixAssetPaths is applied to a document.
MaxApply == 2

\* A string is the sequence of its parts; the first part is what startsWith
\* looks at ("http", "data:", "/", "file://", or a name).
StartsWith(str, prefix) == Len(str) >= 1 /\ str[1] = prefix

\* The values of a src or href attribute (<<>>: the attribute is missing or
\* empty): remote, inline data, absolute in the site, relative.
Urls == {<<>>, <<"http", "a">>, <<"data:", "a">>, <<"/", "a">>, <<"a">>}

\* The img and link[rel="stylesheet"] elements of a document.
Documents == [1..2 -> [tag : {"img", "link"}, url : Urls]]

\* resolveAssetPath(relativePath, htmlFilePath):
\* `file://${process.cwd()}/dist${relativePath}` for a path starting with '/',
\* `file://${process.cwd()}/dist/${relativePath}` otherwise.
resolveAssetPath(relativePath) ==
    IF StartsWith(relativePath, "/")
    THEN <<"file://", "cwd", "/dist">> \o relativePath
    ELSE <<"file://", "cwd", "/dist", "/">> \o relativePath

\* fixAssetPaths(document, filePath): an img src that is set and starts with
\* neither 'http' nor 'data:' is resolved; so is a stylesheet href that is set
\* and does not start with 'http'.
fixAssetPaths(d) ==
    [i \in DOMAIN d |->
        LET url == d[i].url
            skip == IF d[i].tag = "img"
                    THEN url = <<>> \/ StartsWith(url, "http") \/ StartsWith(url, "data:")
                    ELSE url = <<>> \/ StartsWith(url, "http")
        IN IF skip THEN d[i] ELSE [d[i] EXCEPT !.url = resolveAssetPath(url)]]

\* this.fixAssetPaths(document, filePath) is run on the document.
FixAssetPaths ==
    /\ applied < MaxApply
    /\ doc' = fixAssetPaths(doc)
    /\ applied' = applied + 1
    /\ UNCHANGED <<pageVars, copyVars, discVars, cliVars, plan, warned, mode, parallel,
                   config, bpc, browser, htmlFiles, started, stats, reported, published,
                   openPages, cpc, hasPage, trace, failedAt, result>>

\* A document is handed to the preprocessor; no conversion runs.
InitAssets ==
    /\ doc \in Documents
    /\ applied = 0
    /\ \E c \in BatchConfigs :
          Start([mode |-> "all", parallel |-> 1, config |-> c], [f \in Files |-> "any"])
    /\ PageIdle /\ CopyIdle /\ DiscoveryIdle /\ CLIIdle

NextAssets == FixAssetPaths

SpecAssets == InitAssets /\ [][NextAssets]_vars

\* ---------------------------------------------------------------------
\* A configuration file that lacks a section.
Malformed == pconfig.sections # AllSections

\* C23: a configuration that parses and lacks a required section is a fatal
\* failure of the run: no document of the run is converted and none is
\* counted as failed (as claimed; init() only parses the
\* file, so a missing `defaults` converts the document without page rules and a
\* missing `documents` is a failure of each document).
C23_MalformedConfigIsFatal == Malformed => (ppc # "done" /\ result[1].failed = 0)

\* ---------------------------------------------------------------------
\* page.pdf has been issued.
Captured == ppc = "done"

\* C27 (as claimed): the capture is issued in landscape exactly when the
\* resolved page config says orientation "landscape", and the resolved
\* format, margin, printBackground, displayHeaderFooter and preferCSSPageSize
\* are passed unchanged.  (page.pdf is given `landscape: pageConfig.landscape`;
\* `orientation` is never read.)
C27_LandscapeFromOrientation ==
    Captured =>
        /\ Truthy(pdfOptions, "landscape")
              <=> ("orientation" \in DOMAIN pageConfig
                    /\ pageConfig["orientation"] = "landscape")
        /\ \A k \in {"format", "margin", "printBackground", "displayHeaderFooter",
                      "preferCSSPageSize"} :
              k \in DOMAIN pageConfig =>
                  k \in DOMAIN pdfOptions /\ pdfOptions[k] = pageConfig[k]

\* The readiness wait is over.
Waited == wait # "none"

\* C28 (as claimed): the primary readiness predicate holds exactly when no
\* loading placeholder is left, every svg has a child, every image reports
\* loaded, and, on a page without svg, every cell container has a child.
C28_ReadyWithImages ==
    Waited =>
        (wait = "ready" <=>
            /\ ~content.loading
            /\ "empty" \notin content.svgs
            /\ "incomplete" \notin content.images
            /\ content.svgs = {} => "empty" \notin content.cells)

\* C28 (amended): the primary readiness predicate holds exactly when no
\* loading placeholder is left, every svg has a child and, on a page without
\* svg, every cell container has a child (none: immediately); images are not
\* looked at, cell containers are not looked at on a page with an svg.
C28_ReadyWithoutImages ==
    Waited =>
        (wait = "ready" <=>
            /\ ~content.loading
            /\ "empty" \notin content.svgs
            /\ content.svgs = {} => "empty" \notin content.cells)

\* The readiness wait resolved on a page without svg whose cell containers
\* are filled and whose images are not all loaded.
C28_Witness ==
    /\ wait = "ready"
    /\ "incomplete" \in content.images
    /\ content.svgs = {} /\ content.cells = {"filled"}

\* ---------------------------------------------------------------------
\* The artifacts the batch wrote, and the counters convertAll reported.
Produced == {e \in outputDir : e.produced}

ReportedStats ==
    [total |-> htmlFiles, successful |-> Cardinality(Produced),
     failed |-> htmlFiles - Cardinality(Produced)]

CopyReturned == copc = "returned"

\* C24 (as claimed): when copyToSource has returned, the src directory being
\* there and no copy having failed, src holds every artifact the batch
\* produced, those of mirrored subdirectories included, and nothing else.
C24_CopiesExactlyTheBatch ==
    (/\ CopyReturned
     /\ srcDir.exists
     /\ \A i \in DOMAIN copyLog : copyLog[i].kind = "copied")
        => srcDir.files = Produced

\* C25: a failed copy is logged for its file and the loop goes on: when
\* copyToSource has returned, every PDF of the list has been attempted (copied
\* into src, or logged as failed), copyToSource returned normally into
\* convertAll, and the counters and the exit path are those of the batch.
C25_CopyFailureIsLocal ==
    /\ CopyReturned =>
          \A i \in DOMAIN pdfFiles :
              \E j \in DOMAIN copyLog :
                  /\ copyLog[j].file = pdfFiles[i]
                  /\ copyLog[j].kind \in {"copied", "failed"}
                  /\ copyLog[j].kind = "copied" <=> pdfFiles[i] \in srcDir.files
    /\ (\E j \in DOMAIN copyLog : copyLog[j].kind = "failed") =>
          /\ bpc \in {"copy", "closeBrowser", "returned"}
          /\ stats = ReportedStats
          /\ CopyReturned <=> bpc # "copy"

\* A copy failed, a later one succeeded, and convertAll returned.
C25_Witness ==
    /\ bpc = "returned"
    /\ \E j, k \in DOMAIN copyLog :
          j < k /\ copyLog[j].kind = "failed" /\ copyLog[k].kind = "copied"

\* C26: without a src directory copyToSource warns and returns: nothing is
\* read or copied, nothing is raised, the counters stay those of the batch,
\* and convertAll goes on to close the browser and return.
C26_MissingSrcIsSkipped ==
    (~srcDir.exists /\ copc # "access") =>
        /\ CopyReturned
        /\ copyLog = <<CopyEv("warn", NoEntry)>>
        /\ pdfFiles = <<>> /\ srcDir.files = {}
        /\ stats = ReportedStats
        /\ bpc \in {"closeBrowser", "returned"}
        /\ bpc = "closeBrowser" => (browser = "open" /\ ENABLED CloseBrowser)
        /\ bpc = "returned" => browser = "closed"

\* The src directory is missing, PDFs were there to copy, and convertAll
\* returned with the browser closed.
C26_Witness ==
    /\ ~srcDir.exists
    /\ PdfFilter(Readdir(outputDir)) # {}
    /\ bpc = "returned" /\ browser = "closed"

Deadline(op) == {trace[1][i].t : i \in {j \in DOMAIN trace[1] : trace[1][j].op = op}}

\* C32 (as claimed): the primary readiness wait is given the configured
\* deadline: with a resolved page config of timeout T (T > 0) navigation and
\* the readiness wait each give up after T.  (The wait is given 30000, whatever
\* the page config says; only page.goto reads pageConfig.timeout.)
C32_ReadinessDeadlineConfigured ==
    (/\ Waited
     /\ "timeout" \in DOMAIN pageConfig
     /\ pageConfig["timeout"] > 0)
        => /\ Deadline("navigate") = {pageConfig["timeout"]}
           /\ Deadline("ready") \cup Deadline("renderTimeout") = {pageConfig["timeout"]}

\* ---------------------------------------------------------------------
\* The integer a decimal option-argument denotes.
Decimal(ds) == DigitsValue(ds, 10)

\* C33 (as claimed): with `-p N`, N > 1, options.parallel is the number N and
\* the batch runs in chunks of N; without -p it is 1 and the batch is
\* sequential.  (commander hands parseInt the default, 1, as its radix.)
C33_ParallelOptionIsN ==
    options.parsed =>
        IF argv.p = <<>>
        THEN /\ ~options.nan /\ options.parallel = 1
             /\ mode = "all" => parallel = 1
        ELSE Decimal(argv.p) > 1 =>
                /\ ~options.nan /\ options.parallel = Decimal(argv.p)
                /\ mode = "all" => parallel = Decimal(argv.p)
                /\ (mode = "all" /\ bpc = "convert") =>
                       started = Min(Decimal(argv.p), htmlFiles)

\* ---------------------------------------------------------------------
\* convertAll has set this.stats.total to the number of discovered files.
TotalSet == mode = "all" /\ bpc \notin {"init", "launch", "discover"}

\* C34: in a convertAll run stats.successful and stats.failed never decrease,
\* each changes by at most 1 per step, and once stats.total is set
\* stats.successful + stats.failed <= stats.total.
C34_CountersBounded ==
    /\ [](TotalSet => stats.successful + stats.failed <= stats.total)
    /\ [][mode = "all" =>
            /\ stats'.successful \in {stats.successful, stats.successful + 1}
            /\ stats'.failed \in {stats.failed, stats.failed + 1}]_vars

\* A batch has counted a success and a failure, and every discovered file.
C34_Witness ==
    /\ TotalSet
    /\ stats.successful >= 1 /\ stats.failed >= 1
    /\ stats.successful + stats.failed = stats.total

\* ---------------------------------------------------------------------
\* C36: convertSingle sets stats.total to 1, converts the given file only,
\* runs neither discovery (nor its exclusion filter, nor the empty-batch
\* warning, nor the report) and never calls copyToSource, a successful
\* conversion included.
C36_SingleModeFrame ==
    mode = "single" =>
        /\ bpc \notin {"discover", "copy"}
        /\ htmlFiles = 0 /\ ~warned /\ ~reported
        /\ ~published
        /\ started <= 1
        /\ started = 1 => stats.total = 1
        /\ \A f \in Files \ {1} : cpc[f] = "idle" /\ Recorded(f) = 0

\* convertSingle has returned after a successful conversion.
C36_Witness ==
    /\ mode = "single"
    /\ bpc = "returned"
    /\ stats = [total |-> 1, successful |-> 1, failed |-> 0]

\* ---------------------------------------------------------------------
\* One of ops happened in the call of f before its capture.
DoneBeforeCapture(f, ops) ==
    \E i \in 1..(Pos(f, "capture") - 1) : trace[f][i].op \in ops

\* C35: a convertFile call issues page.pdf at most once, and only after
\* navigation, the style injection, the table scan, the readiness wait and
\* every wait config.waitConditions asks for have finished (resolved or timed
\* out); a call that counted a success has issued exactly one capture (to the
\* outputPath it computed from its own filePath).
C35_CaptureOnceAfterWaits ==
    LET wc == config.waitConditions IN
    \A f \in Files : Live(f) =>
        /\ Count(f, "capture") <= 1
        /\ Did(f, "capture") =>
              /\ DoneBeforeCapture(f, {"navigate"})
              /\ DoneBeforeCapture(f, {"styles"})
              /\ DoneBeforeCapture(f, {"tables"})
              /\ DoneBeforeCapture(f, {"ready", "renderTimeout"})
              /\ (wc.present /\ wc.waitForSVGs) =>
                     DoneBeforeCapture(f, {"svgWait", "svgTimeout"})
              /\ (wc.present /\ wc.waitForImages) =>
                     DoneBeforeCapture(f, {"imgWait", "imgTimeout"})
              /\ (wc.present /\ wc.additionalWaitTime) => DoneBeforeCapture(f, {"delay"})
        /\ Did(f, "recordSuccessful") => Count(f, "capture") = 1
        /\ (result[f].successful = 1 /\ cpc[f] \in {"close", "done"}) =>
              Count(f, "capture") = 1

\* A call with every wait configured has captured and counted its success.
C35_Witness ==
    LET wc == config.waitConditions IN
    /\ wc.present /\ wc.waitForSVGs /\ wc.waitForImages /\ wc.additionalWaitTime
    /\ \E f \in Files :
          /\ cpc[f] = "done"
          /\ result[f].successful = 1
          /\ Did(f, "capture") /\ Did(f, "delay") /\ Did(f, "renderTimeout")

\* ---------------------------------------------------------------------
\* C37 (as claimed): fixAssetPaths is idempotent: run again on a document it
\* has rewritten it changes no src and no href; and it never rewrites an img
\* src starting with 'http' or 'data:'.  (A rewritten path starts with
\* 'file://', which fixAssetPaths takes for a relative path and resolves
\* again.)
C37_FixAssetPathsIdempotent ==
    [][/\ applied >= 1 => doc' = doc
       /\ \A i \in DOMAIN doc :
             (/\ doc[i].tag = "img"
              /\ (StartsWith(doc[i].url, "http") \/ StartsWith(doc[i].url, "data:")))
                 => doc'[i] = doc[i]]_vars

====
